---- MODULE Spec2Model ----
(***************************************************************************)
(* Model of the generation route of klineworld (the POST handler of the    *)
(* API route, src/unnamed/part_000): reference ingestion                  *)
(* (ingestReferences and its two extractors), the two-attempt generator   *)
(* loop with extractJsonPayload, and validateGeneratedPayload.            *)
(*                                                                         *)
(* Strings are sequences of characters over {" ", "a"}.  A document is    *)
(* abstracted by what its payload decodes to; the outcome of a network    *)
(* call (a link fetch, the generator call) is chosen by the environment   *)
(* when the call returns.                                                  *)
(***************************************************************************)
EXTENDS Integers, Sequences, FiniteSets, TLC

\* ---------------------------------------------------------------- bounds
\* documents / links handed to ingestReferences when it is run on its own
MaxDocs == 2
MaxLinks == 2
\* documents / links carried by a request body handled by POST
PostMaxDocs == 1
PostMaxLinks == 1
\* longest phases array handed to validateGeneratedPayload on its own
MaxPhaseCount == 12
\* longest phase sequence handed to the transformer
MaxPhases == 2
\* longest phase sequence handed to buildAreaData on its own
MaxChainPhases == 6
\* how far the length of a content handed to pushReference lies from the budget
MaxExcess == 10
\* significant bits a number of the model keeps
Precision == 16
\* most documents a request body carries
MaxSubmitted == 6
\* most files of one selection event, most selections being read at a time
MaxSelected == 6
MaxPendingReads == 2

\* ------------------------------------------------------ program constants
MAX_SECTION_CHARS == 4000
MAX_REFERENCE_CHARS == 6000
UPLOAD_DOC_LIMIT == 5
MAX_ATTEMPTS == 2

\* an absent (undefined) string, and a value of another type where a string
\* is expected
NoValue == <<"undefined">>
NonString == <<"nonString">>
NoSource == <<"none", 0>>

Min(a, b) == IF a < b THEN a ELSE b

\* ------------------------------------------------------------- strings
\* blank and line feed stand for the characters \s matches
Whitespace == {" ", "nl"}

RECURSIVE TrimLeft(_)
TrimLeft(s) ==
    IF s = <<>> THEN <<>>
    ELSE IF Head(s) \in Whitespace THEN TrimLeft(Tail(s)) ELSE s

RECURSIVE TrimRight(_)
TrimRight(s) ==
    IF s = <<>> THEN <<>>
    ELSE IF s[Len(s)] \in Whitespace THEN TrimRight(SubSeq(s, 1, Len(s) - 1)) ELSE s

TrimMutant(s) == s

\* String.prototype.trim
Trim(s) == TrimRight(TrimLeft(s))

\* value.replace(/\s+/g, " "): every run of whitespace becomes one space
RECURSIVE CollapseRuns(_)
CollapseRuns(s) ==
    IF s = <<>> THEN <<>>
    ELSE IF Head(s) \in Whitespace
         THEN <<" ">> \o CollapseRuns(TrimLeft(s))
         ELSE <<Head(s)>> \o CollapseRuns(Tail(s))

normalizeWhitespace(value) == Trim(CollapseRuns(value))

Ellipsis == "..."

truncateTextMutant(value, limit) ==
    IF value = <<>> THEN <<>>
    ELSE IF Len(value) >= limit
         THEN SubSeq(value, 1, limit) \o <<Ellipsis>>
         ELSE value

\* lines 45-50
truncateText(value, limit) ==
    IF value = <<>> THEN <<>>
    ELSE IF Len(value) > limit
         THEN SubSeq(value, 1, limit) \o <<Ellipsis>>
         ELSE value

\* ------------------------------------------------- reference ingestion
\* What an element of body.documents can be.  "null" is a JSON null in the
\* array; "nonStringContent" an object whose content field is no string;
\* the others are well-formed documents classified by their payload.
DocInputs ==
    {"null", "nonStringContent", "emptyPayload", "oversize", "corrupt",
     "blankText", "text"}

\* raw text the format parser yields for a decodable payload
DocRaw(doc) ==
    IF doc = "blankText" THEN <<" ", "nl">> ELSE <<"a", "nl", " ", "b", " ">>

\* what the environment answers to the GET of a link
LinkFetches == {"networkError", "notOk", "emptyPage", "page"}

\* the page fetched: the text of its main element and the text left of the
\* whole page once its tags are stripped
LinkHtml(fetched) ==
    IF fetched = "emptyPage" THEN [main |-> <<" ">>, plain |-> <<"nl", " ">>]
    ELSE [main |-> <<"nl", "a", " ", " ", "b">>, plain |-> <<"x", " ", "a", " ", " ", "b">>]

\* lines 74-80
extractPlainText(html) == Trim(CollapseRuns(html.plain))

\* lines 82-102
extractMainTextFromHtml(html) ==
    LET text == Trim(CollapseRuns(html.main))
    IN  IF Len(text) > 0 THEN text ELSE extractPlainText(html)

DocName(i) == <<"doc", i>>
LinkUrl(j) == <<"link", j>>

TextResult(t) == [tag |-> "text", text |-> t]
TypedError(kind, source) ==
    [tag |-> "ReferenceIngestionError", message |-> [kind |-> kind, source |-> source]]
OtherError == [tag |-> "TypeError"]

extractTextFromDocumentMutant(doc, name) ==
    IF doc \in {"null", "nonStringContent"} THEN OtherError
    ELSE IF doc = "emptyPayload" THEN TypedError("fileEmpty", name)
    ELSE IF doc = "oversize" THEN TypedError("fileTooLarge", name)
    ELSE IF doc = "corrupt" THEN TypedError("cannotParseFile", name)
    ELSE TextResult(normalizeWhitespace(DocRaw(doc)))

\* extractTextFromDocument: the text, a ReferenceIngestionError, or (from the
\* statements before its try block) an untyped exception
extractTextFromDocument(doc, name) ==
    IF doc \in {"null", "nonStringContent"} THEN OtherError
    ELSE IF doc = "emptyPayload" THEN TypedError("fileEmpty", name)
    ELSE IF doc = "oversize" THEN TypedError("fileTooLarge", name)
    ELSE IF doc = "corrupt" THEN TypedError("cannotParseFile", name)
    ELSE LET normalized == normalizeWhitespace(DocRaw(doc))
         IN  IF Len(normalized) = 0
             THEN TypedError("fileEmpty", name)
             ELSE TextResult(normalized)

\* fetchLinkContent: every exception is converted to a ReferenceIngestionError
fetchLinkContent(fetched, url) ==
    IF fetched = "networkError" THEN TypedError("cannotAccessLink", url)
    ELSE IF fetched = "notOk" THEN TypedError("linkStatus", url)
    ELSE LET text == extractMainTextFromHtml(LinkHtml(fetched))
         IN  IF text = <<>>
             THEN TypedError("linkEmpty", url)
             ELSE TextResult(text)

pushReferenceMutant(refs, entry) ==
    <<[entry EXCEPT !.content = truncateText(entry.content, MAX_REFERENCE_CHARS)]>> \o refs

\* lines 208-214
pushReference(refs, entry) ==
    Append(refs, [entry EXCEPT !.content = truncateText(entry.content, MAX_REFERENCE_CHARS)])

ingestResultMutant(had, refs, errs) ==
    IF ~had THEN [status |-> "empty", references |-> <<>>, errors |-> <<>>]
    ELSE IF Len(refs) = 0
    THEN [status |-> "failed", references |-> <<>>,
          errors |-> IF Len(errs) > 0 THEN errs
                     ELSE <<[kind |-> "nothingUsable", source |-> NoSource]>>]
    ELSE [status |-> IF Len(errs) >= 0 THEN "partial" ELSE "success",
          references |-> refs, errors |-> errs]

ingestResultGenericMutant(had, refs, errs) ==
    IF ~had THEN [status |-> "empty", references |-> <<>>, errors |-> <<>>]
    ELSE IF Len(refs) = 0
    THEN [status |-> "failed", references |-> <<>>,
          errors |-> <<[kind |-> "nothingUsable", source |-> NoSource]>>]
    ELSE [status |-> IF Len(errs) > 0 THEN "partial" ELSE "success",
          references |-> refs, errors |-> errs]

\* the value ingestReferences returns once both loops are over
ingestResult(had, refs, errs) ==
    IF ~had THEN [status |-> "empty", references |-> <<>>, errors |-> <<>>]
    ELSE IF Len(refs) = 0
    THEN [status |-> "failed", references |-> <<>>,
          errors |-> IF Len(errs) > 0 THEN errs
                     ELSE <<[kind |-> "nothingUsable", source |-> NoSource]>>]
    ELSE [status |-> IF Len(errs) > 0 THEN "partial" ELSE "success",
          references |-> refs, errors |-> errs]

\* ------------------------------------------- structured-output recovery
\* What JSON.parse gives for a piece of text: it throws, or yields a falsy
\* value (null, 0, false, ""), a truthy scalar, an array, or an object.
ParseOutcomes == {"throw", "falsy", "scalar", "array", "object"}

\* A candidate piece of text: the outcome of JSON.parse on it and of
\* JSON.parse on its jsonrepair (jsonrepair leaves valid JSON as it is).
Candidates ==
    {c \in [strict : ParseOutcomes, repaired : ParseOutcomes] :
        c.strict # "throw" => c.repaired = c.strict}
NoCandidate == [strict |-> "absent", repaired |-> "absent"]

PhasesInputs ==
    {[tag |-> "missing", length |-> 0], [tag |-> "notArray", length |-> 0]}
    \cup {[tag |-> "array", length |-> n] : n \in {4, 5, 10, 11}}

\* the string of n characters c
Rep(c, n) == [i \in 1..n |-> c]
NoPhases == [tag |-> "missing", length |-> 0]
NoDigest == [tag |-> "missing", text |-> <<>>]
StringDigest(s) == [tag |-> "string", text |-> s]
\* source_digest: missing, or a string of 19 or 20 characters, or a string of
\* 20 characters that begins with a blank
DigestInputs ==
    {NoDigest, StringDigest(Rep("a", 19)), StringDigest(Rep("a", 20)),
     StringDigest(<<" ">> \o Rep("a", 19))}

ObjectValue(p, d) == [kind |-> "object", phases |-> p, digest |-> d]
ScalarValue == [kind |-> "scalar", phases |-> NoPhases, digest |-> NoDigest]
ArrayValue == [kind |-> "array", phases |-> NoPhases, digest |-> NoDigest]
Null == [kind |-> "null", phases |-> NoPhases, digest |-> NoDigest]

\* objects the generator text may carry
ObjectInputs ==
    {ObjectValue(p, StringDigest(Rep("a", 20))) : p \in PhasesInputs}
    \cup {ObjectValue([tag |-> "array", length |-> 5], d) : d \in DigestInputs}
DefaultObject ==
    ObjectValue([tag |-> "array", length |-> 5], StringDigest(Rep("a", 20)))

\* A generator text, by its three candidates: the whole normalized text, the
\* inside of its first code fence, its first-brace-to-last-brace slice.
CandidatesOf(text) ==
    {c \in {text.direct, text.fenced, text.sliced} : c # NoCandidate}
MentionsObject(text) ==
    \E c \in CandidatesOf(text) : c.strict = "object" \/ c.repaired = "object"
GeneratorTexts ==
    {t \in [direct : Candidates,
            fenced : Candidates \cup {NoCandidate},
            sliced : Candidates \cup {NoCandidate},
            object : ObjectInputs] :
        ~MentionsObject(t) => t.object = DefaultObject}

\* some candidate of the text parses, or repairs, to an object or an array
Recoverable(text) ==
    \E c \in CandidatesOf(text) :
        \/ c.strict \in {"object", "array"}
        \/ c.strict = "throw" /\ c.repaired \in {"object", "array"}

ValueOf(outcome, object) ==
    IF outcome = "object" THEN object
    ELSE IF outcome = "array" THEN ArrayValue
    ELSE IF outcome = "scalar" THEN ScalarValue
    ELSE Null

\* JavaScript truthiness of a parsed value
Truthy(v) == v.kind # "null"

\* an exception that leaves the function called
Thrown == [kind |-> "exception", phases |-> NoPhases, digest |-> NoDigest]

attemptParseMutant(c, object) ==
    IF c.strict # "throw" THEN ValueOf(c.strict, object)
    ELSE IF c.repaired # "throw" THEN ValueOf(c.repaired, object)
    ELSE Thrown

\* lines 551-563
attemptParse(c, object) ==
    IF c.strict # "throw" THEN ValueOf(c.strict, object)
    ELSE IF c.repaired # "throw" THEN ValueOf(c.repaired, object)
    ELSE Null

extractJsonPayloadMutant(text) ==
    LET direct == attemptParse(text.direct, text.object)
        fenced == IF text.fenced # NoCandidate
                  THEN attemptParse(text.fenced, text.object) ELSE Null
    IN  IF Truthy(direct) THEN direct
        ELSE IF text.fenced # NoCandidate /\ Truthy(fenced) THEN fenced
        ELSE Null

\* lines 565-590
extractJsonPayload(text) ==
    LET direct == attemptParse(text.direct, text.object)
        fenced == IF text.fenced # NoCandidate
                  THEN attemptParse(text.fenced, text.object) ELSE Null
        sliced == IF text.sliced # NoCandidate
                  THEN attemptParse(text.sliced, text.object) ELSE Null
    IN  IF Truthy(direct) THEN direct
        ELSE IF text.fenced # NoCandidate /\ Truthy(fenced) THEN fenced
        ELSE IF text.sliced # NoCandidate /\ Truthy(sliced) THEN sliced
        ELSE Null

validateGeneratedPayloadMutant(payload, requireSourceDigest) ==
    IF ~Truthy(payload) \/ payload.kind = "scalar" THEN "invalidStructure"
    ELSE IF payload.phases.tag # "array" THEN "noPhases"
    ELSE IF payload.phases.length < 4 \/ payload.phases.length > 10
    THEN "phaseCount"
    ELSE IF requireSourceDigest
            /\ (payload.digest.tag # "string" \/ Len(Trim(payload.digest.text)) < 20)
    THEN "noSourceDigest"
    ELSE "ok"

validateSkipDigestMutant(payload, requireSourceDigest) ==
    IF ~Truthy(payload) \/ payload.kind = "scalar" THEN "invalidStructure"
    ELSE IF payload.phases.tag # "array" THEN "noPhases"
    ELSE IF payload.phases.length < 5 \/ payload.phases.length > 10
    THEN "phaseCount"
    ELSE "ok"

validateUpperMutant(payload, requireSourceDigest) ==
    IF ~Truthy(payload) \/ payload.kind = "scalar" THEN "invalidStructure"
    ELSE IF payload.phases.tag # "array" THEN "noPhases"
    ELSE IF payload.phases.length < 5 \/ payload.phases.length >= 10
    THEN "phaseCount"
    ELSE IF requireSourceDigest
            /\ (payload.digest.tag # "string" \/ Len(Trim(payload.digest.text)) < 20)
    THEN "noSourceDigest"
    ELSE "ok"

validateDigestLengthMutant(payload, requireSourceDigest) ==
    IF ~Truthy(payload) \/ payload.kind = "scalar" THEN "invalidStructure"
    ELSE IF payload.phases.tag # "array" THEN "noPhases"
    ELSE IF payload.phases.length < 5 \/ payload.phases.length > 10
    THEN "phaseCount"
    ELSE IF requireSourceDigest
            /\ (payload.digest.tag # "string" \/ Len(Trim(payload.digest.text)) < 19)
    THEN "noSourceDigest"
    ELSE "ok"

\* lines 275-296: "ok", or the message of the Error thrown
validateGeneratedPayload(payload, requireSourceDigest) ==
    IF ~Truthy(payload) \/ payload.kind = "scalar" THEN "invalidStructure"
    ELSE IF payload.phases.tag # "array" THEN "noPhases"
    ELSE IF payload.phases.length < 5 \/ payload.phases.length > 10
    THEN "phaseCount"
    ELSE IF requireSourceDigest
            /\ (payload.digest.tag # "string" \/ Len(Trim(payload.digest.text)) < 20)
    THEN "noSourceDigest"
    ELSE "ok"

\* ------------------------------------------------------------ responses
NoResponse == [kind |-> "none", status |-> 0, error |-> "none"]
ErrorResponseMutant(status, error) == [kind |-> "error", status |-> 500, error |-> error]
ErrorResponse(status, error) == [kind |-> "error", status |-> status, error |-> error]
\* an exception that leaves POST
Escaped == [kind |-> "exception", status |-> 0, error |-> "TypeError"]

VARIABLES
    pc,             \* position of the request
    query,          \* POST: trimmed prompt
    supplementalText, \* argument of ingestReferences
    nDocs,          \* number of documents handed to ingestReferences
    nLinks,         \* number of links handed to ingestReferences
    references,     \* ingestReferences: entries collected so far
    partialErrors,  \* ingestReferences: failure messages collected so far
    hadInput,       \* ingestReferences: any source attempted
    docIdx,         \* next document of the first loop
    linkIdx,        \* next link of the second loop
    attempted,      \* log: extractor calls made, in order, with their outcome
    ingestion,      \* value returned by ingestReferences
    attempt,        \* POST: loop counter of the generator loop
    parsed,         \* POST: recovered value
    rawContent,     \* POST: content of the last generator reply
    calls,          \* log: generator calls issued
    replies,        \* log: generator replies processed
    validated,      \* log: validateGeneratedPayload has run
    response,       \* what POST returned
    fnArg,          \* argument of a function called on its own
    fnResult,       \* what that function returned
    documents,      \* Home: number of documents in the documents state
    pendingReads,   \* Home: file selections whose files are being read
    actionHint,     \* Home: the hint shown
    result,         \* Home: the result displayed
    clientError,    \* Home: the error state
    loading         \* Home: the loading state

ingestVars ==
    <<supplementalText, nDocs, nLinks, references, partialErrors, hadInput,
      docIdx, linkIdx, attempted, ingestion>>
postVars == <<query, attempt, parsed, rawContent, calls, replies, validated, response>>
fnVars == <<fnArg, fnResult>>
clientVars == <<documents, pendingReads, actionHint, result, clientError, loading>>
vars == <<pc, ingestVars, postVars, fnVars, clientVars>>

\* page.tsx lines 908-917: the state of Home when it is mounted
ClientIdle ==
    /\ documents = 0
    /\ pendingReads = <<>>
    /\ actionHint = "null"
    /\ result = "sampleResponse"
    /\ clientError = "null"
    /\ loading = FALSE

TextInputs == {NoValue, <<>>, <<" ">>, <<" ", "a">>, <<"a", " ", "nl", "b">>}

NoResult == [status |-> "none"]

IngestLocalsInit ==
    /\ references = <<>>
    /\ partialErrors = <<>>
    /\ hadInput = FALSE
    /\ docIdx = 1
    /\ linkIdx = 1
    /\ attempted = <<>>
    /\ ingestion = NoResult

PostLocalsInit ==
    /\ query = NoValue
    /\ attempt = 0
    /\ parsed = Null
    /\ rawContent = "null"
    /\ calls = <<>>
    /\ replies = <<>>
    /\ validated = FALSE
    /\ response = NoResponse

\* no function is called on its own
FnIdle ==
    /\ fnArg = <<>>
    /\ fnResult = <<>>

\* lines 216-220
IngestText ==
    /\ pc = "ingest_text"
    /\ LET textBlock == IF supplementalText = NoValue THEN NoValue
                        ELSE Trim(supplementalText)
       IN  IF textBlock # NoValue /\ textBlock # <<>>
           THEN /\ hadInput' = TRUE
                /\ references' = pushReference(references,
                       [type |-> "text", content |-> textBlock, source |-> <<"user_input", 0>>])
           ELSE UNCHANGED <<hadInput, references>>
    /\ pc' = "ingest_loops"
    /\ UNCHANGED <<supplementalText, nDocs, nLinks, partialErrors, docIdx, linkIdx,
                   attempted, ingestion, postVars>>
    /\ UNCHANGED <<fnVars, clientVars>>

\* lines 222-234: one iteration of the documents loop
IngestDoc ==
    /\ pc = "ingest_loops"
    /\ docIdx <= nDocs
    /\ \E doc \in DocInputs :
         \E r \in {extractTextFromDocument(doc, DocName(docIdx))} :
             /\ hadInput' = TRUE
             /\ attempted' = Append(attempted,
                    [type |-> "file", idx |-> docIdx, input |-> doc,
                     ok |-> (r.tag = "text")])
             /\ IF r.tag = "text"
                THEN /\ references' = pushReference(references,
                            [type |-> "file", content |-> r.text,
                             source |-> DocName(docIdx)])
                     /\ docIdx' = docIdx + 1
                     /\ UNCHANGED <<partialErrors, pc>>
                ELSE IF r.tag = "ReferenceIngestionError"
                THEN /\ partialErrors' = Append(partialErrors, r.message)
                     /\ docIdx' = docIdx + 1
                     /\ UNCHANGED <<references, pc>>
                ELSE IF doc = "null"
                \* the handler reads doc.name of a null document: the TypeError
                \* leaves the catch block and ingestReferences
                THEN /\ pc' = "ingest_threw"
                     /\ UNCHANGED <<references, partialErrors, docIdx>>
                ELSE /\ partialErrors' = Append(partialErrors,
                            [kind |-> "cannotReadFile", source |-> DocName(docIdx)])
                     /\ docIdx' = docIdx + 1
                     /\ UNCHANGED <<references, pc>>
    /\ UNCHANGED <<supplementalText, nDocs, nLinks, linkIdx, ingestion, postVars>>
    /\ UNCHANGED <<fnVars, clientVars>>

\* lines 236-248: one iteration of the links loop
IngestLink ==
    /\ pc = "ingest_loops"
    /\ docIdx > nDocs
    /\ linkIdx <= nLinks
    /\ \E fetched \in LinkFetches :
         \E r \in {fetchLinkContent(fetched, LinkUrl(linkIdx))} :
             /\ hadInput' = TRUE
             /\ attempted' = Append(attempted,
                    [type |-> "url", idx |-> linkIdx, input |-> fetched,
                     ok |-> (r.tag = "text")])
             /\ IF r.tag = "text"
                THEN /\ references' = pushReference(references,
                            [type |-> "url", content |-> r.text,
                             source |-> LinkUrl(linkIdx)])
                     /\ UNCHANGED partialErrors
                ELSE /\ partialErrors' = Append(partialErrors, r.message)
                     /\ UNCHANGED references
    /\ linkIdx' = linkIdx + 1
    /\ UNCHANGED <<pc, supplementalText, nDocs, nLinks, docIdx, ingestion, postVars>>
    /\ UNCHANGED <<fnVars, clientVars>>

\* lines 250-272
IngestReturn ==
    /\ pc = "ingest_loops"
    /\ docIdx > nDocs
    /\ linkIdx > nLinks
    /\ ingestion' = ingestResult(hadInput, references, partialErrors)
    /\ pc' = "ingested"
    /\ UNCHANGED <<supplementalText, nDocs, nLinks, references, partialErrors,
                   hadInput, docIdx, linkIdx, attempted, postVars>>
    /\ UNCHANGED <<fnVars, clientVars>>

\* ingestReferences called on its own with any arguments
InitIngest ==
    /\ pc = "ingest_text"
    /\ supplementalText \in TextInputs
    /\ nDocs \in 0..MaxDocs
    /\ nLinks \in 0..MaxLinks
    /\ IngestLocalsInit
    /\ PostLocalsInit
    /\ FnIdle
    /\ ClientIdle

NextIngest == IngestText \/ IngestDoc \/ IngestLink \/ IngestReturn

SpecIngest == InitIngest /\ [][NextIngest]_vars

\* lines 159-167: fetch(url, {headers}) is awaited with no signal and no timer
\* beside it; while the source sends no complete response the links loop
\* stays at this await
AwaitFetch ==
    /\ pc = "ingest_loops"
    /\ docIdx > nDocs
    /\ linkIdx <= nLinks
    /\ hadInput' = TRUE
    /\ pc' = "awaiting_fetch"
    /\ UNCHANGED <<supplementalText, nDocs, nLinks, references, partialErrors,
                   docIdx, linkIdx, attempted, ingestion, postVars>>
    /\ UNCHANGED <<fnVars, clientVars>>

NextPending == NextIngest \/ AwaitFetch

\* every continuation of ingestReferences that can run does run; a source
\* owes no response
SpecPending == InitIngest /\ [][NextPending]_vars /\ WF_vars(NextIngest)

\* ------------------------------------- the documents of a request body
\* POST line 508 with a body of fnArg documents, no links and no
\* supplemental text: body.documents.slice(0, 5)
InitCap ==
    /\ pc = "slice"
    /\ fnArg \in 0..MaxSubmitted
    /\ fnResult = <<>>
    /\ supplementalText = NoValue
    /\ nDocs = 0
    /\ nLinks = 0
    /\ IngestLocalsInit
    /\ PostLocalsInit
    /\ ClientIdle

SliceDocuments ==
    /\ pc = "slice"
    /\ nDocs' = Min(fnArg, UPLOAD_DOC_LIMIT)
    /\ pc' = "ingest_text"
    /\ UNCHANGED <<supplementalText, nLinks, references, partialErrors, hadInput,
                   docIdx, linkIdx, attempted, ingestion, postVars>>
    /\ UNCHANGED <<fnVars, clientVars>>

NextCap == SliceDocuments \/ IngestText \/ IngestDoc \/ IngestReturn

SpecCap == InitCap /\ [][NextCap]_vars

\* ------------------------------------------------------------ POST
RECURSIVE SeqsUpTo(_, _)
SeqsUpTo(S, n) ==
    IF n = 0 THEN {<<>>}
    ELSE LET shorter == SeqsUpTo(S, n - 1)
         IN  shorter \cup {Append(q, x) : q \in {r \in shorter : Len(r) = n - 1}, x \in S}

\* body.prompt and body.supplementalText: absent, no string, or a string
StringInputs == {NoValue, NonString, <<>>, <<" ">>, <<" ", "a">>}
LinkInputs == {NonString, <<" ">>, <<"a", " ">>}


\* body.links.map((link) => link.trim()).filter(Boolean)
RECURSIVE FilterNonEmpty(_)
FilterNonEmpty(links) ==
    IF links = <<>> THEN <<>>
    ELSE IF Trim(Head(links)) = <<>> THEN FilterNonEmpty(Tail(links))
    ELSE <<Trim(Head(links))>> \o FilterNonEmpty(Tail(links))

formatReferenceEntry(entry, index) ==
    [index |-> index,
     label |-> IF entry.type = "text" THEN "userSupplement" ELSE entry.source,
     content |-> entry.content]

hasReferenceBlock == Len(ingestion.references) > 0

referenceBlock ==
    IF hasReferenceBlock
    THEN [i \in 1..Len(ingestion.references) |->
             formatReferenceEntry(ingestion.references[i], i)]
    ELSE <<>>

\* the template filled with the query and the reference block ("none" when
\* the block is absent); suffix is what is appended after the template
USER_PROMPT_TEMPLATE(q, block) ==
    [template |-> "USER_PROMPT_TEMPLATE", query |-> q, block |-> block, suffix |-> <<>>]

StrictJsonHint == "strictJsonHint"

userPromptMutant(a) ==
    IF a = 0
    THEN [USER_PROMPT_TEMPLATE(query, referenceBlock) EXCEPT
             !.suffix = Append(@, StrictJsonHint)]
    ELSE USER_PROMPT_TEMPLATE(query, referenceBlock)

\* lines 596-602
userPrompt(a) ==
    IF a = 1
    THEN [USER_PROMPT_TEMPLATE(query, referenceBlock) EXCEPT
             !.suffix = Append(@, StrictJsonHint)]
    ELSE USER_PROMPT_TEMPLATE(query, referenceBlock)

referenceInstructionMessage ==
    IF hasReferenceBlock
    THEN <<[role |-> "system",
            content |-> [template |-> "referenceRules", query |-> <<>>,
                         block |-> referenceBlock, suffix |-> <<>>]]>>
    ELSE <<>>

requestMessages(a) ==
    <<[role |-> "system",
       content |-> [template |-> "SYSTEM_PROMPT", query |-> <<>>, block |-> <<>>,
                    suffix |-> <<>>]]>>
    \o referenceInstructionMessage
    \o <<[role |-> "user", content |-> userPrompt(a)]>>

\* lines 483-508: the checks before ingestion
ReceiveRequest ==
    /\ pc = "start"
    /\ \E apiKey \in BOOLEAN, body \in {"invalidJson", "null", "object"},
          prompt \in StringInputs, text \in StringInputs,
          d \in 0..PostMaxDocs, links \in SeqsUpTo(LinkInputs, PostMaxLinks) :
         IF ~apiKey
         THEN /\ response' = ErrorResponse(500, "missingApiKey")
              /\ pc' = "done"
              /\ UNCHANGED <<query, supplementalText, nDocs, nLinks>>
         ELSE IF body = "invalidJson"
         THEN /\ response' = ErrorResponse(400, "badRequestBody")
              /\ pc' = "done"
              /\ UNCHANGED <<query, supplementalText, nDocs, nLinks>>
         ELSE IF body = "null" \/ prompt = NonString
         THEN /\ response' = Escaped
              /\ pc' = "done"
              /\ UNCHANGED <<query, supplementalText, nDocs, nLinks>>
         ELSE IF prompt = NoValue \/ Trim(prompt) = <<>>
         THEN /\ response' = ErrorResponse(400, "noPrompt")
              /\ pc' = "done"
              /\ UNCHANGED <<query, supplementalText, nDocs, nLinks>>
         ELSE IF text = NonString \/ (\E i \in 1..Len(links) : links[i] = NonString)
         THEN /\ response' = Escaped
              /\ pc' = "done"
              /\ query' = Trim(prompt)
              /\ UNCHANGED <<supplementalText, nDocs, nLinks>>
         ELSE /\ query' = Trim(prompt)
              /\ supplementalText' = IF text = NoValue THEN NoValue ELSE Trim(text)
              /\ nLinks' = Len(FilterNonEmpty(links))
              /\ nDocs' = Min(d, UPLOAD_DOC_LIMIT)
              /\ pc' = "ingest_text"
              /\ UNCHANGED response
    /\ UNCHANGED <<references, partialErrors, hadInput, docIdx, linkIdx, attempted,
                   ingestion, attempt, parsed, rawContent, calls, replies, validated>>
    /\ UNCHANGED <<fnVars, clientVars>>

\* line 510: the call of ingestReferences is outside the try block of POST
IngestionEscapes ==
    /\ pc = "ingest_threw"
    /\ response' = Escaped
    /\ pc' = "done"
    /\ UNCHANGED <<ingestVars, query, attempt, parsed, rawContent, calls, replies,
                   validated>>
    /\ UNCHANGED <<fnVars, clientVars>>

\* lines 595-625: the loop test and the request of one attempt
SendCall ==
    /\ pc \in {"ingested", "loop"}
    /\ attempt < MAX_ATTEMPTS
    /\ calls' = Append(calls, [attempt |-> attempt, messages |-> requestMessages(attempt)])
    /\ pc' = "awaiting"
    /\ UNCHANGED <<ingestVars, query, attempt, parsed, rawContent, replies, validated,
                   response>>
    /\ UNCHANGED <<fnVars, clientVars>>

\* how the generator call can end
Transports ==
    {"fetchThrows", "notOk", "notOkUnreadable", "okBadJson", "okNullBody",
     "okNoContent", "okEmptyContent", "okNonStringContent", "okText"}

\* A reply whose content is the text t, as the loop sees it: the value
\* extractJsonPayload recovers from t, and (for the log) whether some
\* candidate of t parses or repairs to an object or array.
TextReply(t) ==
    [transport |-> "okText", recovered |-> extractJsonPayload(t),
     recoverable |-> Recoverable(t)]
GeneratorReplies ==
    {[transport |-> tr, recovered |-> Null, recoverable |-> FALSE] :
        tr \in Transports \ {"okText"}}
    \cup {TextReply(t) : t \in GeneratorTexts}

\* lines 625-647 and the catch of lines 683-691: the rest of one attempt
ReceiveResponse ==
    /\ pc = "awaiting"
    /\ \E reply \in GeneratorReplies :
         /\ replies' = Append(replies,
                [attempt |-> attempt, transport |-> reply.transport,
                 recovered |-> reply.recovered, recoverable |-> reply.recoverable])
         /\ IF reply.transport = "notOk"
            THEN /\ response' = ErrorResponse(502, "upstreamUnavailable")
                 /\ pc' = "done"
                 /\ UNCHANGED <<attempt, parsed, rawContent>>
            ELSE IF reply.transport \in
                      {"fetchThrows", "notOkUnreadable", "okBadJson", "okNullBody"}
            THEN /\ response' = ErrorResponse(500, "generationFailed")
                 /\ pc' = "done"
                 /\ UNCHANGED <<attempt, parsed, rawContent>>
            ELSE IF reply.transport \in {"okNoContent", "okEmptyContent"}
            THEN /\ rawContent' = IF reply.transport = "okNoContent"
                                  THEN "null" ELSE "empty"
                 /\ attempt' = attempt + 1
                 /\ pc' = "loop"
                 /\ UNCHANGED <<parsed, response>>
            ELSE IF reply.transport = "okNonStringContent"
            THEN /\ rawContent' = "nonString"
                 /\ response' = ErrorResponse(500, "generationFailed")
                 /\ pc' = "done"
                 /\ UNCHANGED <<attempt, parsed>>
            ELSE /\ rawContent' = "text"
                 /\ parsed' = reply.recovered
                 /\ IF Truthy(reply.recovered)
                    THEN pc' = "after_loop" /\ UNCHANGED attempt
                    ELSE pc' = "loop" /\ attempt' = attempt + 1
                 /\ UNCHANGED response
    /\ UNCHANGED <<ingestVars, query, calls, validated>>
    /\ UNCHANGED <<fnVars, clientVars>>

buildReferencePreview(content) == normalizeWhitespace(content)

\* lines 649-682: after the loop
Finish ==
    /\ \/ pc = "after_loop"
       \/ pc = "loop" /\ attempt >= MAX_ATTEMPTS
    /\ IF ~Truthy(parsed)
       THEN /\ response' = ErrorResponse(502, "unparseable")
            /\ UNCHANGED validated
       ELSE /\ validated' = TRUE
            /\ LET verdict == validateGeneratedPayload(parsed, Len(ingestion.references) > 0)
               IN  IF verdict # "ok"
                   THEN response' = ErrorResponse(502, verdict)
                   ELSE response' =
                          [kind |-> "success", status |-> 200, payload |-> parsed,
                           reference_status |-> ingestion.status,
                           reference_entries |->
                              [i \in 1..Len(ingestion.references) |->
                                 [type |-> ingestion.references[i].type,
                                  source |-> ingestion.references[i].source,
                                  preview |-> buildReferencePreview(
                                                 ingestion.references[i].content)]],
                           reference_errors |-> ingestion.errors]
    /\ pc' = "done"
    /\ UNCHANGED <<ingestVars, query, attempt, parsed, rawContent, calls, replies>>
    /\ UNCHANGED <<fnVars, clientVars>>

Init ==
    /\ pc = "start"
    /\ supplementalText = NoValue
    /\ nDocs = 0
    /\ nLinks = 0
    /\ IngestLocalsInit
    /\ PostLocalsInit
    /\ FnIdle
    /\ ClientIdle

Next ==
    \/ ReceiveRequest
    \/ IngestText
    \/ IngestDoc
    \/ IngestLink
    \/ IngestReturn
    \/ IngestionEscapes
    \/ SendCall
    \/ ReceiveResponse
    \/ Finish

Spec == Init /\ [][Next]_vars

\* ------------------------------------------------ ingestion: claims
IsBlank(s) == \A i \in 1..Len(s) : s[i] \in Whitespace
TextSubmitted == supplementalText # NoValue /\ ~IsBlank(supplementalText)
TextCount == IF TextSubmitted THEN 1 ELSE 0
NumFailed == Cardinality({k \in 1..Len(attempted) : ~attempted[k].ok})
NumOk == Cardinality({k \in 1..Len(attempted) : attempted[k].ok}) + TextCount
IngestReturned == ingestion # NoResult
IngestThrew == pc = "ingest_threw"
IngestOver == IngestReturned \/ IngestThrew

\* C1: every document and every link is attempted exactly once, in order, a
\* failed source never stops the later ones, and ingestReferences never throws.
C1_PartialFailureIsolation ==
    /\ ~IngestThrew
    /\ IngestReturned =>
          /\ Len(attempted) = nDocs + nLinks
          /\ \A k \in 1..nDocs :
                attempted[k].type = "file" /\ attempted[k].idx = k
          /\ \A k \in 1..nLinks :
                attempted[nDocs + k].type = "url" /\ attempted[nDocs + k].idx = k

\* C2: when at least one source succeeded and at least one failed, the call
\* returns status partial with one error per failed source.
C2_PartialStatus ==
    (IngestOver /\ NumOk >= 1 /\ NumFailed >= 1) =>
        /\ IngestReturned
        /\ ingestion.status = "partial"
        /\ Len(ingestion.errors) = NumFailed

\* C3: when at least one source was attempted and none succeeded, the call
\* returns status failed with no entries.
C3_FailedStatus ==
    (IngestOver /\ NumOk = 0 /\ NumFailed >= 1) =>
        /\ IngestReturned
        /\ ingestion.status = "failed"
        /\ ingestion.references = <<>>

ZeroSources ==
    /\ nDocs = 0
    /\ nLinks = 0
    /\ supplementalText = NoValue \/ IsBlank(supplementalText)

\* C4: with no document, no link and absent or blank supplemental text, no
\* extractor is called, nothing is thrown, and the result is status empty
\* with no entries and no errors.
C4_EmptyStatus ==
    ZeroSources =>
        /\ attempted = <<>>
        /\ ~IngestThrew
        /\ references = <<>>
        /\ pc = "ingest_loops" => ENABLED IngestReturn
        /\ IngestReturned =>
              ingestion = [status |-> "empty", references |-> <<>>, errors |-> <<>>]

C4_Witness ==
    /\ ZeroSources
    /\ supplementalText = <<" ">>
    /\ IngestReturned
    /\ ingestion.status = "empty"

\* C5: when at least one source was submitted and every source succeeded, the
\* call returns status success, no errors, and one entry per submitted source.
C5_SuccessStatus ==
    (IngestOver /\ NumFailed = 0 /\ NumOk >= 1) =>
        /\ IngestReturned
        /\ ingestion.status = "success"
        /\ ingestion.errors = <<>>
        /\ Len(ingestion.references) = TextCount + nDocs + nLinks

C5_Witness ==
    /\ IngestReturned
    /\ ingestion.status = "success"
    /\ TextSubmitted /\ nDocs >= 1 /\ nLinks >= 1
    /\ Len(ingestion.references) = 1 + nDocs + nLinks

\* ------------------------------------------- generator loop: claims
\* the reply carried no text, or text none of whose candidates parses or
\* repairs to an object or array
NoObjectIn(r) ==
    \/ r.transport \in {"okNoContent", "okEmptyContent"}
    \/ r.transport = "okText" /\ ~r.recoverable
RecoveredStructure(r) ==
    r.transport = "okText" /\ r.recovered.kind \in {"object", "array"}
\* the verdict section 4.6 of the specification prescribes for a structured value
\* ------------------------------------- validateGeneratedPayload on its own
\* no request is being served
RequestIdle ==
    /\ supplementalText = NoValue
    /\ nDocs = 0
    /\ nLinks = 0
    /\ IngestLocalsInit
    /\ PostLocalsInit
    /\ ClientIdle

NonStringDigest == [tag |-> "nonString", text |-> <<>>]
ValidatorPhases ==
    {NoPhases, [tag |-> "notArray", length |-> 0]}
    \cup {[tag |-> "array", length |-> n] : n \in 0..MaxPhaseCount}
ValidatorDigests ==
    {NoDigest, NonStringDigest}
    \cup {StringDigest(Rep("a", n)) : n \in {0, 19, 20, 21}}
    \cup {StringDigest(<<" ">> \o Rep("a", 19)), StringDigest(Rep("a", 19) \o <<" ">>),
          StringDigest(<<" ">> \o Rep("a", 20)), StringDigest(Rep(" ", 20))}
ValidatorPayloads ==
    {Null, ScalarValue, ArrayValue}
    \cup {ObjectValue(p, d) : p \in ValidatorPhases, d \in ValidatorDigests}

InitValidate ==
    /\ pc = "validate"
    /\ fnArg \in [payload : ValidatorPayloads, requireSourceDigest : BOOLEAN]
    /\ fnResult = <<>>
    /\ RequestIdle

\* validateGeneratedPayload(payload, {requireSourceDigest})
ValidateCall ==
    /\ pc = "validate"
    /\ fnResult' = validateGeneratedPayload(fnArg.payload, fnArg.requireSourceDigest)
    /\ pc' = "validated"
    /\ UNCHANGED <<ingestVars, postVars, clientVars, fnArg>>

NextValidate == ValidateCall

SpecValidate == InitValidate /\ [][NextValidate]_vars

\* ------------------------------------------- extractJsonPayload on its own
\* the parser calls attemptParse makes on a candidate: JSON.parse, then
\* JSON.parse(jsonrepair(..)) when the first throws
parserCalls(name, c) ==
    IF c.strict # "throw" THEN <<[candidate |-> name, parser |-> "strict"]>>
    ELSE <<[candidate |-> name, parser |-> "strict"],
           [candidate |-> name, parser |-> "repair"]>>

ExtractorTexts == {t \in GeneratorTexts : t.object = DefaultObject}

InitExtract ==
    /\ pc = "extract_direct"
    /\ fnArg \in ExtractorTexts
    /\ fnResult = [tried |-> <<>>, value |-> Null]
    /\ RequestIdle

\* lines 566-570: the whole normalized text
ExtractDirect ==
    /\ pc = "extract_direct"
    /\ LET direct == attemptParse(fnArg.direct, fnArg.object)
       IN  /\ fnResult' = [tried |-> fnResult.tried \o parserCalls("direct", fnArg.direct),
                           value |-> IF Truthy(direct) THEN direct ELSE Null]
           /\ pc' = IF direct = Thrown THEN "extract_threw"
                    ELSE IF Truthy(direct) THEN "extract_returned"
                    ELSE "extract_fenced"
    /\ UNCHANGED <<ingestVars, postVars, clientVars, fnArg>>

\* lines 572-578: the inside of the first code fence, if the text has one
ExtractFenced ==
    /\ pc = "extract_fenced"
    /\ IF fnArg.fenced = NoCandidate
       THEN /\ pc' = "extract_sliced"
            /\ UNCHANGED fnResult
       ELSE LET fenced == attemptParse(fnArg.fenced, fnArg.object)
            IN  /\ fnResult' = [tried |-> fnResult.tried \o parserCalls("fenced", fnArg.fenced),
                                value |-> IF Truthy(fenced) THEN fenced ELSE Null]
                /\ pc' = IF fenced = Thrown THEN "extract_threw"
                         ELSE IF Truthy(fenced) THEN "extract_returned"
                         ELSE "extract_sliced"
    /\ UNCHANGED <<ingestVars, postVars, clientVars, fnArg>>

\* lines 580-589: the first-brace-to-last-brace slice, if any; else null
ExtractSliced ==
    /\ pc = "extract_sliced"
    /\ IF fnArg.sliced = NoCandidate
       THEN /\ pc' = "extract_returned"
            /\ fnResult' = [fnResult EXCEPT !.value = Null]
       ELSE LET parsedSlice == attemptParse(fnArg.sliced, fnArg.object)
            IN  /\ fnResult' = [tried |-> fnResult.tried \o parserCalls("sliced", fnArg.sliced),
                                value |-> IF Truthy(parsedSlice) THEN parsedSlice ELSE Null]
                /\ pc' = IF parsedSlice = Thrown THEN "extract_threw"
                         ELSE "extract_returned"
    /\ UNCHANGED <<ingestVars, postVars, clientVars, fnArg>>

NextExtract == ExtractDirect \/ ExtractFenced \/ ExtractSliced

SpecExtract == InitExtract /\ [][NextExtract]_vars

\* ------------------------------------------------ time-series transformer
\* A JavaScript number that holds a time: NaN, or a whole number of days
\* (every time the transformer computes is a multiple of 24 * 60 * 60
\* seconds, one unit here).
NaN == [nan |-> TRUE, v |-> 0]
Num(n) == [nan |-> FALSE, v |-> n]
\* a <= b of JavaScript: false when either side is NaN
LessEq(a, b) == ~a.nan /\ ~b.nan /\ a.v <= b.v
Plus(a, n) == IF a.nan THEN NaN ELSE Num(a.v + n)

Leaps(n) == (n \div 4) - (n \div 100) + (n \div 400)
IsLeap(y) == (y % 4 = 0 /\ y % 100 # 0) \/ y % 400 = 0
\* Date.UTC(year, month, 1) / 1000 for month 0, 3, 6 or 9: years 0 to 99 stand
\* for 1900 to 1999, and a date more than 100,000,000 days from the epoch is NaN
DateUTC(year, month) ==
    LET y == IF year >= 0 /\ year <= 99 THEN 1900 + year ELSE year
        days == 365 * (y - 1970) + Leaps(y - 1) - Leaps(1969)
                + <<0, 90, 181, 273>>[(month \div 3) + 1]
                + (IF month >= 3 /\ IsLeap(y) THEN 1 ELSE 0)
    IN  IF days > 100000000 \/ days < -100000000 THEN NaN ELSE Num(days)

\* A label is a number or a string. The characters of a string: digits, blank,
\* "Q" (Q or q), "di" (the ordinal prefix), "ji" (one of the ordinal units),
\* "season" (one of the ordinal keywords), "x" (any other character).
DigitChars == <<"0", "1", "2", "3", "4", "5", "6", "7", "8", "9">>
IsDigit(ch) == \E i \in 1..10 : DigitChars[i] = ch
DigitValue(ch) == (CHOOSE i \in 1..10 : DigitChars[i] = ch) - 1
NumberLabel(n) == [type |-> "number", n |-> n, text |-> <<>>]
StringLabel(s) == [type |-> "string", n |-> 0, text |-> s]

\* the index after the digits that start at i
RECURSIVE RunEnd(_, _)
RunEnd(s, i) == IF i <= Len(s) /\ IsDigit(s[i]) THEN RunEnd(s, i + 1) ELSE i
\* Number() of the digits s[i..j-1]
RECURSIVE RunValue(_, _, _)
RunValue(s, i, j) ==
    IF j <= i THEN 0 ELSE 10 * RunValue(s, i, j - 1) + DigitValue(s[j - 1])
\* the index after the blanks that start at i
RECURSIVE SkipSpace(_, _)
SkipSpace(s, i) == IF i <= Len(s) /\ s[i] \in Whitespace THEN SkipSpace(s, i + 1) ELSE i
Leftmost(S) == CHOOSE i \in S : \A j \in S : i <= j

\* (?:19|20)\d{2} at i
YearAt(s, i) ==
    /\ i + 3 <= Len(s)
    /\ <<s[i], s[i + 1]>> \in {<<"1", "9">>, <<"2", "0">>}
    /\ IsDigit(s[i + 2])
    /\ IsDigit(s[i + 3])
QuarterAtMutant(s, i) == FALSE

\* ((?:19|20)\d{2})\s*[Qq]([1-4]) at i
QuarterAt(s, i) ==
    /\ YearAt(s, i)
    /\ LET j == SkipSpace(s, i + 4)
       IN  j + 1 <= Len(s) /\ s[j] = "Q" /\ s[j + 1] \in {"1", "2", "3", "4"}
\* (\d+)\s*(?:unit) with the digits starting at i
CnOrdinalAt(s, i) ==
    /\ IsDigit(s[i])
    /\ i = 1 \/ ~IsDigit(s[i - 1])
    /\ LET j == SkipSpace(s, RunEnd(s, i)) IN j <= Len(s) /\ s[j] = "ji"
\* (?:keyword)\s*0*(\d+) at i
EnOrdinalAt(s, i) ==
    /\ s[i] = "season"
    /\ LET j == SkipSpace(s, i + 1) IN j <= Len(s) /\ IsDigit(s[j])

\* page.tsx lines 376-409
yearToTimestamp(label, index) ==
    IF label.type = "number" THEN DateUTC(label.n, 0)
    ELSE
    LET raw == Trim(label.text)
        quarterMatch == {i \in 1..Len(raw) : QuarterAt(raw, i)}
        yearMatch == {i \in 1..Len(raw) : YearAt(raw, i)}
        cnOrdinal == {i \in 1..Len(raw) : CnOrdinalAt(raw, i)}
        enOrdinal == {i \in 1..Len(raw) : EnOrdinalAt(raw, i)}
        numeric == {i \in 1..Len(raw) : IsDigit(raw[i])}
    IN  IF quarterMatch # {}
        THEN LET i == Leftmost(quarterMatch)
                 quarter == DigitValue(raw[SkipSpace(raw, i + 4) + 1]) - 1
             IN  DateUTC(RunValue(raw, i, i + 4), quarter * 3)
        ELSE IF yearMatch # {}
        THEN LET i == Leftmost(yearMatch) IN DateUTC(RunValue(raw, i, i + 4), 0)
        ELSE IF cnOrdinal # {}
        THEN LET i == Leftmost(cnOrdinal)
             IN  DateUTC(2000 + RunValue(raw, i, RunEnd(raw, i)), 0)
        ELSE IF enOrdinal # {}
        THEN LET j == SkipSpace(raw, Leftmost(enOrdinal) + 1)
             IN  DateUTC(2100 + RunValue(raw, j, RunEnd(raw, j)), 0)
        ELSE IF numeric # {}
        THEN LET i == Leftmost(numeric)
             IN  DateUTC(2200 + RunValue(raw, i, RunEnd(raw, i)), 0)
        ELSE Num(0 + index)

Max(a, b) == IF a >= b THEN a ELSE b

clampScoreMutant(value) == Max(value, 0)

\* page.tsx line 426
clampScore(value) == Min(Max(value, 0), 100)

Phase(start, end, open, high, low, close) ==
    [start_year |-> start, end_year |-> end, open |-> open, high |-> high,
     low |-> low, close |-> close, label |-> "label"]

\* page.tsx lines 428-445
normalizePhases(phases, clampToHundred) ==
    IF Len(phases) = 0 THEN phases
    ELSE IF ~clampToHundred THEN [i \in 1..Len(phases) |-> phases[i]]
    ELSE [i \in 1..Len(phases) |->
            [phases[i] EXCEPT !.open = clampScore(@), !.high = clampScore(@),
                              !.low = clampScore(@), !.close = clampScore(@)]]

\* page.tsx lines 525-543; phase is the index of the phase the point belongs to
pushPoint(acc, time, value, phase) ==
    LET t == IF LessEq(time, acc.lastTime) THEN Plus(acc.lastTime, 1) ELSE time
    IN  [lastTime |-> t,
         points |-> Append(acc.points, [time |-> t, value |-> value, phase |-> phase])]

shouldBridgeMutant(prev, phase) ==
    prev.end_year # phase.start_year /\ prev.close # phase.open

\* page.tsx lines 563-564
shouldBridge(prev, phase) ==
    prev.end_year # phase.start_year \/ prev.close # phase.open

\* page.tsx lines 545-571: phases.forEach from the given index on
RECURSIVE forEachPhase(_, _, _)
forEachPhase(phases, index, acc) ==
    IF index >= Len(phases) THEN acc
    ELSE LET phase == phases[index + 1]
             startTime == yearToTimestamp(phase.start_year, index)
             endTime == yearToTimestamp(phase.end_year, index + 1)
             boundedOpen == clampScore(phase.open)
             boundedClose == clampScore(phase.close)
             started ==
                 IF index = 0 THEN pushPoint(acc, startTime, boundedOpen, index)
                 ELSE IF shouldBridge(phases[index], phase)
                 THEN pushPoint(acc, startTime, boundedOpen, index)
                 ELSE acc
         IN  forEachPhase(phases, index + 1,
                          pushPoint(started, endTime, boundedClose, index))

\* page.tsx lines 515-574
buildAreaData(phases) ==
    IF Len(phases) = 0 THEN <<>>
    ELSE forEachPhase(phases, 0, [lastTime |-> Num(0), points |-> <<>>]).points

\* ------------------------------------ the chart of one series, on its own
AxisKinds == {"objective", "subjective", "undefined"}
AreaLabels ==
    {StringLabel(<<"2", "0", "2", "0">>), StringLabel(<<"1", "9", "5", "0">>),
     StringLabel(<<"x">>), NumberLabel(300000)}
\* open and close of a phase
AreaValues == {<<-20, 50>>, <<50, 150>>}
AreaPhases ==
    {Phase(s, e, v[1], Max(v[1], v[2]), Min(v[1], v[2]), v[2]) :
        s \in AreaLabels, e \in AreaLabels, v \in AreaValues}

InitArea ==
    /\ pc = "render"
    /\ fnArg \in [kind : AxisKinds, phases : SeqsUpTo(AreaPhases, MaxPhases)]
    /\ fnResult = [displayPhases |-> <<>>, data |-> <<>>]
    /\ RequestIdle

\* page.tsx lines 925-931: Home normalizes the phases of the series
NormalizeForDisplay ==
    /\ pc = "render"
    /\ LET shouldClampPrimary == IF fnArg.kind = "objective" THEN FALSE ELSE TRUE
       IN  fnResult' = [fnResult EXCEPT
                           !.displayPhases = normalizePhases(fnArg.phases, shouldClampPrimary)]
    /\ pc' = "display"
    /\ UNCHANGED <<ingestVars, postVars, clientVars, fnArg>>

\* page.tsx line 788: ChartPanel builds the area series from them
BuildArea ==
    /\ pc = "display"
    /\ fnResult' = [fnResult EXCEPT !.data = buildAreaData(fnResult.displayPhases)]
    /\ pc' = "charted"
    /\ UNCHANGED <<ingestVars, postVars, clientVars, fnArg>>

NextArea == NormalizeForDisplay \/ BuildArea

SpecArea == InitArea /\ [][NextArea]_vars

\* --------------------------------------------- normalizePhases on its own
NormalizeLabels == {StringLabel(<<"2", "0", "2", "0">>)}
NormalizePhasesInputs ==
    {Phase(s, s, open, high, low, close) :
        s \in NormalizeLabels, open \in {-20, 0, 50, 100, 150}, high \in {50, 150},
        low \in {-20, 50}, close \in {0, 101}}

InitNormalize ==
    /\ pc = "normalize"
    /\ fnArg \in SeqsUpTo(NormalizePhasesInputs, MaxPhases)
    /\ fnResult = <<>>
    /\ RequestIdle

\* normalizePhases(phases, true)
NormalizeCall ==
    /\ pc = "normalize"
    /\ fnResult' = <<normalizePhases(fnArg, TRUE)>>
    /\ pc' = "normalized"
    /\ UNCHANGED <<ingestVars, postVars, clientVars, fnArg>>

\* normalizePhases(.., true) of what the first call returned
NormalizeAgain ==
    /\ pc = "normalized"
    /\ fnResult' = Append(fnResult, normalizePhases(fnResult[1], TRUE))
    /\ pc' = "renormalized"
    /\ UNCHANGED <<ingestVars, postVars, clientVars, fnArg>>

NextNormalize == NormalizeCall \/ NormalizeAgain

SpecNormalize == InitNormalize /\ [][NextNormalize]_vars

\* --------------------------------------- buildAreaData on a longer series
ChainLabels == {StringLabel(<<"2", "0", "2", "0">>)}
\* open and close of a phase
ChainValues == {<<50, 50>>, <<50, 60>>, <<60, 50>>}
ChainPhases ==
    {Phase(s, s, v[1], Max(v[1], v[2]), Min(v[1], v[2]), v[2]) :
        s \in ChainLabels, v \in ChainValues}

InitChain ==
    /\ pc = "chain"
    /\ fnArg \in SeqsUpTo(ChainPhases, MaxChainPhases)
    /\ fnResult = <<>>
    /\ RequestIdle

\* buildAreaData(phases)
BuildChain ==
    /\ pc = "chain"
    /\ fnResult' = buildAreaData(fnArg)
    /\ pc' = "chained"
    /\ UNCHANGED <<ingestVars, postVars, clientVars, fnArg>>

NextChain == BuildChain

SpecChain == InitChain /\ [][NextChain]_vars

\* ---------------------------------------------- yearToTimestamp on its own
\* the decimal digits of n
RECURSIVE Digits(_)
Digits(n) ==
    IF n < 10 THEN <<DigitChars[n + 1]>>
    ELSE Append(Digits(n \div 10), DigitChars[(n % 10) + 1])

\* labels of each variant, with the numbers they were written from
YearInputs == {1850, 1950, 2005, 2020, 2101}
OrdinalInputs == {1, 5, 101, 105, 201}
LabelCase(variant, year, n, text) ==
    [variant |-> variant, year |-> year, n |-> n, label |-> StringLabel(text)]
LabelCases ==
    {LabelCase("year", y, 0, Digits(y)) : y \in YearInputs}
    \cup {LabelCase("quarter", y, q, Digits(y) \o <<"Q">> \o Digits(q)) :
             y \in {1850, 2020}, q \in 1..4}
    \cup {LabelCase("quarter", 2020, 2, <<"x", " ">> \o Digits(2020) \o <<" ", "Q", "2", "x">>),
          LabelCase("quarter", 2020, 3, Digits(2019) \o <<"x">> \o Digits(2020) \o <<"Q", "3">>)}
    \cup {LabelCase("embedded", y, 0, <<"x">> \o Digits(y) \o <<"x", "7">>) : y \in {1850, 2020}}
    \cup {LabelCase("localized", 0, n, <<"di">> \o Digits(n) \o <<"ji">>) : n \in OrdinalInputs}
    \cup {LabelCase("english", 0, n, <<"season", " ">> \o Digits(n)) : n \in OrdinalInputs}
    \cup {LabelCase("integer", 0, n, <<"x">> \o Digits(n)) : n \in OrdinalInputs}

InitLabels ==
    /\ pc = "labels"
    /\ fnArg \in [first : LabelCases, second : LabelCases]
    /\ fnResult = <<>>
    /\ RequestIdle

\* yearToTimestamp(label) for each of two labels
ResolveLabels ==
    /\ pc = "labels"
    /\ fnResult' = [first |-> yearToTimestamp(fnArg.first.label, 0),
                    second |-> yearToTimestamp(fnArg.second.label, 0)]
    /\ pc' = "resolved"
    /\ UNCHANGED <<ingestVars, postVars, clientVars, fnArg>>

NextLabels == ResolveLabels

SpecLabels == InitLabels /\ [][NextLabels]_vars

\* -------------------------------------------- pushReference on its own
\* contents whose lengths lie around the per-entry budget, and a short one
PushContents ==
    {Rep("a", n - 1) \o <<"z">> :
        n \in {1} \cup ((MAX_REFERENCE_CHARS - MaxExcess)..(MAX_REFERENCE_CHARS + MaxExcess))}
PushEntries ==
    {[type |-> "text", content |-> c, source |-> <<"user_input", 0>>] : c \in PushContents}
    \cup {[type |-> "file", content |-> c, source |-> DocName(1)] : c \in PushContents}
    \cup {[type |-> "url", content |-> c, source |-> LinkUrl(1)] : c \in PushContents}

InitPush ==
    /\ pc = "push"
    /\ fnArg \in PushEntries
    /\ fnResult = <<>>
    /\ RequestIdle

\* pushReference(entry) on an empty references list
PushCall ==
    /\ pc = "push"
    /\ fnResult' = pushReference(<<>>, fnArg)
    /\ pc' = "pushed"
    /\ UNCHANGED <<ingestVars, postVars, clientVars, fnArg>>

NextPush == PushCall

SpecPush == InitPush /\ [][NextPush]_vars

\* ------------------------------------------ computePhaseRange on its own
\* A number is held as a count of hundredths.  As a JavaScript number keeps
\* 53 significant bits, a number of the model keeps Precision significant
\* bits: every result of an arithmetic operation is rounded to the nearest
\* number that has them (ties to even).
RECURSIVE Pow2(_)
Pow2(n) == IF n = 0 THEN 1 ELSE 2 * Pow2(n - 1)

Abs(x) == IF x < 0 THEN 0 - x ELSE x

\* distance between neighbouring numbers at the magnitude a
RECURSIVE Spacing(_, _)
Spacing(a, u) == IF a < Pow2(Precision) * u THEN u ELSE Spacing(a, 2 * u)

\* x as a multiple of u, to nearest, ties to the even multiple
NearestMultiple(x, u) ==
    LET q == x \div u
        r == x - q * u
    IN  IF 2 * r < u THEN q * u
        ELSE IF 2 * r > u THEN (q + 1) * u
        ELSE IF q % 2 = 0 THEN q * u ELSE (q + 1) * u

Round(x) == NearestMultiple(x, Spacing(Abs(x), 1))

Sub(a, b) == Round(a - b)
Add(a, b) == Round(a + b)
\* a * 0.08, a * 0.05: the factor is given in hundredths
Mul(a, factor) == Round(NearestMultiple(a * factor, 100) \div 100)

Hundredths(n) == 100 * n
\* a number beyond the reach of the significand, and its upper neighbour
HugeValue == Pow2(Precision + 6)
NextHugeValue == HugeValue + Pow2(7)

NoRange == [null |-> TRUE, min |-> 0, max |-> 0]

RECURSIVE MinOf(_)
MinOf(values) ==
    IF Len(values) = 1 THEN values[1] ELSE Min(Head(values), MinOf(Tail(values)))
RECURSIVE MaxOf(_)
MaxOf(values) ==
    IF Len(values) = 1 THEN values[1] ELSE Max(Head(values), MaxOf(Tail(values)))

\* phases.flatMap((phase) => [phase.open, phase.close, phase.low, phase.high])
RECURSIVE PhaseValues(_)
PhaseValues(phases) ==
    IF phases = <<>> THEN <<>>
    ELSE <<Head(phases).open, Head(phases).close, Head(phases).low, Head(phases).high>>
         \o PhaseValues(Tail(phases))

\* page.tsx lines 452-479; kind is axis?.kind.  The values drawn below are
\* finite numbers, so the guard of lines 470-472 lets them pass.
computePhaseRange(phases, kind) ==
    IF Len(phases) = 0 THEN NoRange
    ELSE IF kind = "subjective"
    THEN [null |-> FALSE, min |-> 0, max |-> Hundredths(100)]
    ELSE LET min == MinOf(PhaseValues(phases))
             max == MaxOf(PhaseValues(phases))
         IN  IF min = max
             THEN LET padding == IF Mul(Abs(min), 5) # 0 THEN Mul(Abs(min), 5)
                                 ELSE Hundredths(1)
                  IN  [null |-> FALSE, min |-> Sub(min, padding), max |-> Add(max, padding)]
             ELSE LET gap == IF Mul(Sub(max, min), 8) # 0 THEN Mul(Sub(max, min), 8)
                             ELSE Hundredths(1)
                  IN  [null |-> FALSE, min |-> Sub(min, gap), max |-> Add(max, gap)]

\* open, close, low and high of a phase
RangeValues ==
    {<<Hundredths(0), Hundredths(0), Hundredths(0), Hundredths(0)>>,
     <<Hundredths(50), Hundredths(50), Hundredths(50), Hundredths(50)>>,
     <<Hundredths(-50), Hundredths(-50), Hundredths(-50), Hundredths(-50)>>,
     <<Hundredths(0), Hundredths(50), Hundredths(0), Hundredths(50)>>,
     <<Hundredths(50), Hundredths(0), Hundredths(-50), Hundredths(150)>>,
     <<Hundredths(-50), Hundredths(0), Hundredths(-50), Hundredths(0)>>,
     <<HugeValue, HugeValue, HugeValue, HugeValue>>,
     <<HugeValue, NextHugeValue, HugeValue, NextHugeValue>>}
RangePhases ==
    {Phase(s, s, v[1], v[4], v[3], v[2]) : s \in ChainLabels, v \in RangeValues}

InitRange ==
    /\ pc = "range"
    /\ fnArg \in [kind : AxisKinds, phases : SeqsUpTo(RangePhases, MaxPhases)]
    /\ fnResult = NoRange
    /\ RequestIdle

\* computePhaseRange(phases, axis)
ComputeRange ==
    /\ pc = "range"
    /\ fnResult' = computePhaseRange(fnArg.phases, fnArg.kind)
    /\ pc' = "ranged"
    /\ UNCHANGED <<ingestVars, postVars, clientVars, fnArg>>

NextRange == ComputeRange

SpecRange == InitRange /\ [][NextRange]_vars

\* ------------------------------ the range of the displayed primary series
\* the phases with their values as counts of hundredths
InHundredths(phases) ==
    [i \in 1..Len(phases) |->
        [phases[i] EXCEPT !.open = Hundredths(@), !.high = Hundredths(@),
                          !.low = Hundredths(@), !.close = Hundredths(@)]]

\* page.tsx lines 980-983: primaryRange of the normalized phases
ComputePrimaryRange ==
    /\ pc = "display"
    /\ fnResult' = [displayPhases |-> fnResult.displayPhases, data |-> <<>>,
                    range |-> computePhaseRange(InHundredths(fnResult.displayPhases),
                                                fnArg.kind)]
    /\ pc' = "ranged"
    /\ UNCHANGED <<ingestVars, postVars, clientVars, fnArg>>

NextHome == NormalizeForDisplay \/ ComputePrimaryRange

SpecHome == InitArea /\ [][NextHome]_vars

\* ------------------------------------------ Home: the documents selected
\* The documents state is held as the number of its documents, a file
\* selection in progress as the number of files it is reading.  Handlers
\* see the documents of the latest render.
\* fnArg is the cleaned query of the latest runGeneration, fnResult the
\* latest response of /api/generate as it arrived.
InitClient ==
    /\ pc = "client"
    /\ RequestIdle
    /\ fnArg = "none"
    /\ fnResult = "none"

\* page.tsx lines 1060-1072: handleFilesSelected up to its await; some file
\* of the selection may exceed MAX_UPLOAD_BYTES (lines 1037-1039)
FilesSelected ==
    /\ pc \in {"client", "fetching"}
    /\ Len(pendingReads) < MaxPendingReads
    /\ \E selected \in 0..MaxSelected, oversize \in BOOLEAN :
         LET remainingSlots == Max(0, 5 - documents)
             files == Min(selected, remainingSlots)
         IN  IF selected = 0
             THEN UNCHANGED <<pendingReads, actionHint>>
             ELSE IF remainingSlots = 0
             THEN actionHint' = "limitReached" /\ UNCHANGED pendingReads
             ELSE IF oversize
             THEN actionHint' = "fileTooLarge" /\ UNCHANGED pendingReads
             ELSE pendingReads' = Append(pendingReads, files) /\ UNCHANGED actionHint
    /\ UNCHANGED <<documents, result, clientError, loading>>
    /\ UNCHANGED <<pc, ingestVars, postVars, fnVars>>

\* page.tsx lines 1072-1077: Promise.all settles and handleFilesSelected
\* resumes; selections settle in any order
FilesRead ==
    /\ pc \in {"client", "fetching"}
    /\ \E i \in 1..Len(pendingReads), ok \in BOOLEAN :
         /\ pendingReads' = SubSeq(pendingReads, 1, i - 1)
                               \o SubSeq(pendingReads, i + 1, Len(pendingReads))
         /\ IF ok
            THEN documents' = documents + pendingReads[i] /\ actionHint' = "added"
            ELSE actionHint' = "readFailed" /\ UNCHANGED documents
    /\ UNCHANGED <<result, clientError, loading>>
    /\ UNCHANGED <<pc, ingestVars, postVars, fnVars>>

\* page.tsx lines 1082-1084: handleRemoveDocument of a document of the list
RemoveDocument ==
    /\ pc \in {"client", "fetching"}
    /\ documents > 0
    /\ documents' = documents - 1
    /\ UNCHANGED <<pendingReads, actionHint, result, clientError, loading>>
    /\ UNCHANGED <<pc, ingestVars, postVars, fnVars>>

\* what fetch and the reading of the response can come to: fetch rejects; a
\* non-OK response whose body has an error text, an empty error text, or
\* is no JSON; an OK response that is no JSON, has no phases, has an empty
\* phases list, or has phases
Responses ==
    {"networkError", "notOkError", "notOkEmptyError", "notOkNoBody",
     "okNoJson", "okNoPhases", "okEmptyPhases", "phasesA", "phasesB"}

ValidPayloads == {"phasesA", "phasesB"}

\* page.tsx lines 1137-1156 mutated: a rejected fetch leaves no message
thrownMessageMutant(res) ==
    CASE res = "networkError" -> "null"
      [] res = "notOkError" -> "serverError"
      [] res = "notOkEmptyError" -> ""
      [] res = "notOkNoBody" -> "generationFailed"
      [] res = "okNoJson" -> "jsonSyntaxError"
      [] OTHER -> "noValidTrend"

\* page.tsx lines 1137-1156: the message of the error thrown for a
\* response, which the catch block takes over
thrownMessage(res) ==
    CASE res = "networkError" -> "failedToFetch"
      [] res = "notOkError" -> "serverError"
      [] res = "notOkEmptyError" -> ""
      [] res = "notOkNoBody" -> "generationFailed"
      [] res = "okNoJson" -> "jsonSyntaxError"
      [] OTHER -> "noValidTrend"

\* page.tsx lines 1107-1135: runGeneration up to its await of fetch.  The
\* submit button is disabled while loading (line 1247), so no run starts
\* while one is in flight.
RunGeneration ==
    /\ pc = "client"
    /\ \E cleanQuery \in {"", "query"} :
         /\ fnArg' = cleanQuery
         /\ IF cleanQuery = ""
            THEN /\ clientError' = "emptyQuery"
                 /\ UNCHANGED <<pc, loading>>
            ELSE /\ loading' = TRUE
                 /\ clientError' = "null"
                 /\ pc' = "fetching"
    /\ UNCHANGED <<documents, pendingReads, actionHint, result, fnResult>>
    /\ UNCHANGED <<ingestVars, postVars>>

\* page.tsx lines 1131-1158: the fetch settles and runGeneration runs to
\* its end
ResponseArrives ==
    /\ pc = "fetching"
    /\ \E res \in Responses :
         /\ fnResult' = res
         /\ IF res \in ValidPayloads
            THEN result' = res /\ UNCHANGED clientError
            ELSE clientError' = thrownMessage(res) /\ UNCHANGED result
    /\ loading' = FALSE
    /\ pc' = "client"
    /\ UNCHANGED <<documents, pendingReads, actionHint, fnArg>>
    /\ UNCHANGED <<ingestVars, postVars>>

NextClient ==
    FilesSelected \/ FilesRead \/ RemoveDocument \/ RunGeneration \/ ResponseArrives

SpecClient == InitClient /\ [][NextClient]_vars

ExpectedVerdict(v) ==
    IF v.kind # "object" \/ v.phases.tag # "array" THEN "noPhases"
    ELSE IF v.phases.length \notin 5..10 THEN "phaseCount"
    ELSE IF Len(ingestion.references) > 0
            /\ ~(v.digest.tag = "string" /\ Len(Trim(v.digest.text)) >= 20)
    THEN "noSourceDigest"
    ELSE "ok"
UserPromptOf(call) == call.messages[Len(call.messages)].content

\* C6: the generator is called at most twice, a call is issued only when every
\* earlier reply has been processed, and the second call is issued only after
\* a first reply with no text or with text holding no recoverable structure.
C6_AttemptBound ==
    /\ Len(calls) <= 2
    /\ \A i \in 1..Len(calls) : calls[i].attempt = i - 1
    /\ Len(calls) - Len(replies) \in {0, 1}
    /\ (Len(calls) - Len(replies) = 1) <=> (pc = "awaiting")
    /\ Len(calls) = 2 => NoObjectIn(replies[1])

C6_Witness ==
    /\ pc = "done"
    /\ Len(calls) = 2
    /\ Len(replies) = 2
    /\ replies[1].transport = "okText"

\* C7: once a recovered object fails validation, the request ends with that
\* validation message and no further generator call is made.
C7_ValidationFatal ==
    \A i \in 1..Len(replies) :
        (RecoveredStructure(replies[i]) /\ ExpectedVerdict(replies[i].recovered) # "ok") =>
            /\ Len(calls) = i
            /\ pc \in {"after_loop", "done"}
            /\ pc = "done" =>
                 /\ validated
                 /\ response = ErrorResponse(502, ExpectedVerdict(replies[i].recovered))

C7_Witness ==
    /\ pc = "done"
    /\ Len(calls) = 1
    /\ RecoveredStructure(replies[1])
    /\ response = ErrorResponse(502, "phaseCount")

\* C8: every transport failure of the generator call (a non-OK response, the
\* call throwing, an unreadable body) ends the request at once with the
\* upstream-unavailable error.
C8_TransportFailure ==
    \A i \in 1..Len(replies) :
        replies[i].transport \in {"fetchThrows", "notOk", "notOkUnreadable", "okBadJson"} =>
            /\ Len(calls) = i
            /\ pc = "done"
            /\ response = ErrorResponse(502, "upstreamUnavailable")

\* C9: when both attempts were made and neither reply held a recoverable
\* object, the request ends with the unparseable error after exactly two
\* calls and without the validator having run.
C9_BothExhausted ==
    (pc = "done" /\ Len(replies) = 2
        /\ NoObjectIn(replies[1]) /\ NoObjectIn(replies[2])) =>
        /\ response = ErrorResponse(502, "unparseable")
        /\ Len(calls) = 2
        /\ ~validated

\* C10: the attempt-0 prompt never carries the strict-JSON instruction, the
\* attempt-1 prompt is the attempt-0 prompt with that instruction appended, and
\* unrecoverable text on attempt 0 followed by a valid payload on attempt 1
\* ends in success with that payload.
C10_RetrySucceeds ==
    /\ \A i \in 1..Len(calls) :
         /\ calls[i].attempt = 0 => UserPromptOf(calls[i]).suffix = <<>>
         /\ calls[i].attempt = 1 =>
              UserPromptOf(calls[i]) =
                 [UserPromptOf(calls[1]) EXCEPT !.suffix = Append(@, StrictJsonHint)]
    /\ (pc = "done" /\ Len(replies) = 2
          /\ replies[1].transport = "okText" /\ ~replies[1].recoverable
          /\ RecoveredStructure(replies[2])
          /\ ExpectedVerdict(replies[2].recovered) = "ok") =>
         /\ response.kind = "success"
         /\ response.payload = replies[2].recovered
         /\ Len(calls) = 2

C10_Witness ==
    /\ pc = "done"
    /\ response.kind = "success"
    /\ Len(calls) = 2
    /\ replies[1].transport = "okText"
    /\ UserPromptOf(calls[2]).suffix = <<StrictJsonHint>>

\* the digest requirement: a string of at least 20 characters once trimmed
DigestSatisfied(v) == v.digest.tag = "string" /\ Len(Trim(v.digest.text)) >= 20
ValidPhases(v) == v.phases.tag = "array" /\ v.phases.length \in 5..10

\* C11: a success response is returned only for a payload the validator has
\* run on: an object recovered from a generator reply, with between 5 and 10
\* phases and, when ingestion produced an entry, a satisfying source_digest.
C11_ValidationGate ==
    response.kind = "success" =>
        /\ validated
        /\ response.payload = parsed
        /\ \E i \in 1..Len(replies) : replies[i].recovered = response.payload
        /\ response.payload.kind = "object"
        /\ ValidPhases(response.payload)
        /\ Len(ingestion.references) > 0 => DigestSatisfied(response.payload)

C11_Witness ==
    /\ response.kind = "success"
    /\ Len(ingestion.references) > 0
    /\ response.payload.phases.length = 10

C14_DigestRequirement ==
    (pc = "done" /\ validated /\ parsed.kind = "object" /\ ValidPhases(parsed)) =>
        /\ (response.kind = "success") <=>
              (Len(ingestion.references) = 0 \/ DigestSatisfied(parsed))
        /\ response.kind # "success" => response = ErrorResponse(502, "noSourceDigest")
        /\ ingestion.status \in {"empty", "failed"} => Len(ingestion.references) = 0

\* a padded digest is rejected when entries exist
C14_Witness ==
    /\ pc = "done"
    /\ validated
    /\ ValidPhases(parsed)
    /\ Len(ingestion.references) > 0
    /\ parsed.digest.tag = "string"
    /\ Len(parsed.digest.text) = 20
    /\ response = ErrorResponse(502, "noSourceDigest")

\* C14 as stated: with entries, accepted exactly when source_digest is a
\* string of at least 20 characters.
C14_AsStated ==
    (pc = "done" /\ validated /\ parsed.kind = "object" /\ ValidPhases(parsed)) =>
        (response.kind = "success") <=>
            \/ Len(ingestion.references) = 0
            \/ parsed.digest.tag = "string" /\ Len(parsed.digest.text) >= 20

\* C15: extractJsonPayload never throws: from every text, also one whose
\* candidates make both the strict parser and the repair pass throw, it goes
\* on until it returns a recovered value or null.
C15_NeverThrows ==
    /\ pc # "extract_threw"
    /\ pc \in {"extract_direct", "extract_fenced", "extract_sliced"} => ENABLED NextExtract
    /\ pc = "extract_returned" =>
         /\ fnResult.value.kind \in {"null", "scalar", "array", "object"}
         /\ fnResult.value = extractJsonPayload(fnArg)

C15_Witness ==
    /\ pc = "extract_returned"
    /\ fnArg.direct = [strict |-> "throw", repaired |-> "throw"]
    /\ fnArg.fenced = NoCandidate
    /\ fnArg.sliced = [strict |-> "throw", repaired |-> "throw"]
    /\ Len(fnResult.tried) = 4
    /\ fnResult.value = Null

\* C16: a value extractJsonPayload returns other than null is a structured
\* value, never a bare scalar; a text whose candidates parse or repair to no
\* structured value yields null.
C16_StructuredOnly ==
    pc = "extract_returned" =>
        /\ fnResult.value # Null => fnResult.value.kind \in {"object", "array"}
        /\ ~Recoverable(fnArg) => fnResult.value = Null

\* the candidates a text has, in the order of the cascade
CascadeOrder == <<"direct", "fenced", "sliced">>
Present(text) == SelectSeq(CascadeOrder, LAMBDA n : text[n] # NoCandidate)
\* a candidate succeeds: strict parsing, or the repair pass after strict
\* parsing threw, yields a structured value
Succeeds(c) ==
    \/ c.strict \in {"object", "array"}
    \/ c.strict = "throw" /\ c.repaired \in {"object", "array"}
FirstSuccess(text) ==
    LET hits == {i \in 1..Len(Present(text)) : Succeeds(text[Present(text)[i]])}
    IN  IF hits = {} THEN 0 ELSE CHOOSE i \in hits : \A j \in hits : i <= j
RECURSIVE CallsUpTo(_, _)
CallsUpTo(text, k) ==
    IF k = 0 THEN <<>>
    ELSE CallsUpTo(text, k - 1) \o
         (LET name == Present(text)[k]
          IN  IF text[name].strict # "throw"
              THEN <<[candidate |-> name, parser |-> "strict"]>>
              ELSE <<[candidate |-> name, parser |-> "strict"],
                     [candidate |-> name, parser |-> "repair"]>>)

\* C17: the candidates are tried in the order whole text, fence content,
\* brace slice, each strictly and then, only if that throws, repaired; the
\* result is the value of the first candidate that succeeds, no later
\* candidate is evaluated, and null is returned only if every candidate fails.
C17_CascadeOrder ==
    pc = "extract_returned" =>
        LET k == FirstSuccess(fnArg)
        IN  IF k = 0
            THEN /\ fnResult.value = Null
                 /\ fnResult.tried = CallsUpTo(fnArg, Len(Present(fnArg)))
            ELSE /\ fnResult.value = ValueOf(
                        IF fnArg[Present(fnArg)[k]].strict # "throw"
                        THEN fnArg[Present(fnArg)[k]].strict
                        ELSE fnArg[Present(fnArg)[k]].repaired, fnArg.object)
                 /\ fnResult.tried = CallsUpTo(fnArg, k)

\* the time yearToTimestamp gave for the i-th point emitted: the point is the
\* end point of its phase when it is the last one the phase owns
RawTime(phases, data, i) ==
    LET p == data[i].phase
    IN  IF i = Len(data) \/ data[i + 1].phase # p
        THEN yearToTimestamp(phases[p + 1].end_year, p + 1)
        ELSE yearToTimestamp(phases[p + 1].start_year, p)

\* C12: the times of the points buildAreaData emits are strictly increasing
\* in emission order, and a time that does not exceed the one emitted before
\* it is replaced by that time plus one day.
C12_StrictlyIncreasing ==
    pc = "charted" =>
        \A i \in 2..Len(fnResult.data) :
            /\ ~fnResult.data[i].time.nan
            /\ ~fnResult.data[i - 1].time.nan
            /\ fnResult.data[i - 1].time.v < fnResult.data[i].time.v
            /\ RawTime(fnResult.displayPhases, fnResult.data, i).nan
               \/ RawTime(fnResult.displayPhases, fnResult.data, i).v
                     <= fnResult.data[i - 1].time.v
               => fnResult.data[i].time = Plus(fnResult.data[i - 1].time, 1)

\* the join of phase i (counted from 1) with the phase before it is
\* discontinuous: another label, or another value
Discontinuous(phases, i) ==
    \/ phases[i - 1].end_year # phases[i].start_year
    \/ phases[i - 1].close # phases[i].open
OwnedBy(data, p) == {k \in 1..Len(data) : data[k].phase = p}

\* C18: on an objective axis the value of every chart point is the open
\* (start point) or the close (end point) of the phase it belongs to, as the
\* payload gave it, also below 0 and above 100.
C18_ObjectiveUnclamped ==
    (pc = "charted" /\ fnArg.kind = "objective") =>
        \A k \in 1..Len(fnResult.data) :
            LET p == fnResult.data[k].phase
            IN  IF k = Len(fnResult.data) \/ fnResult.data[k + 1].phase # p
                THEN fnResult.data[k].value = fnArg.phases[p + 1].close
                ELSE fnResult.data[k].value = fnArg.phases[p + 1].open

\* C20: phase 0 emits a start point at its open, a later phase emits one
\* exactly when its join with the phase before is discontinuous, every phase
\* emits one end point at its close; so n phases with d discontinuous joins
\* give 1 + n + d points, and no phases give no points.
C20_PointConstruction ==
    pc = "charted" =>
        LET phases == fnResult.displayPhases
            data == fnResult.data
            n == Len(phases)
            d == Cardinality({i \in 2..n : Discontinuous(phases, i)})
        IN  /\ n = 0 => data = <<>>
            /\ n >= 1 => Len(data) = 1 + n + d
            /\ \A k \in 2..Len(data) : data[k - 1].phase <= data[k].phase
            /\ \A i \in 1..n :
                 LET own == OwnedBy(data, i - 1)
                     last == CHOOSE k \in own : \A j \in own : j <= k
                 IN  /\ Cardinality(own) =
                          IF i = 1 \/ Discontinuous(phases, i) THEN 2 ELSE 1
                     /\ data[last].value = phases[i].close
                     /\ Cardinality(own) = 2 => data[last - 1].value = phases[i].open

ScoreFields == {"open", "high", "low", "close"}

\* C19: on a subjective axis normalizePhases brings open, high, low and close
\* into 0..100: a value in 0..100 stays, a larger one becomes 100, a smaller
\* one 0; the phases keep their number, order and other fields; normalizing
\* the result again changes nothing.
C19_SubjectiveClamp ==
    pc \in {"normalized", "renormalized"} =>
        /\ Len(fnResult[1]) = Len(fnArg)
        /\ \A i \in 1..Len(fnArg) :
             /\ \A f \in ScoreFields :
                  /\ fnResult[1][i][f] \in 0..100
                  /\ fnArg[i][f] \in 0..100 => fnResult[1][i][f] = fnArg[i][f]
                  /\ fnArg[i][f] > 100 => fnResult[1][i][f] = 100
                  /\ fnArg[i][f] < 0 => fnResult[1][i][f] = 0
             /\ fnResult[1][i].start_year = fnArg[i].start_year
             /\ fnResult[1][i].end_year = fnArg[i].end_year
             /\ fnResult[1][i].label = fnArg[i].label
        /\ pc = "renormalized" => fnResult[2] = fnResult[1]

C19_Witness ==
    /\ pc = "renormalized"
    /\ Len(fnArg) = 2
    /\ fnArg[1].open = 150
    /\ fnArg[2].low = -20
    /\ fnArg[1].close = 0
    /\ fnResult[1][1].open = 100
    /\ fnResult[1][2].low = 0
    /\ fnResult[1][1] # fnResult[1][2]

Joins(phases) == {i \in 2..Len(phases) : Discontinuous(phases, i)}

\* C21 (as amended): a 6-phase sequence with exactly one discontinuous join
\* yields 8 points: the start point of the first phase, one bridge point and
\* six end points.
C21_SixPhasesOneJoin ==
    (pc = "chained" /\ Len(fnArg) = 6 /\ Cardinality(Joins(fnArg)) = 1) =>
        /\ Len(fnResult) = 8
        /\ \A p \in 0..5 :
             Cardinality(OwnedBy(fnResult, p)) =
                IF p = 0 \/ p + 1 \in Joins(fnArg) THEN 2 ELSE 1

C21_Witness ==
    /\ pc = "chained"
    /\ Len(fnArg) = 6
    /\ Joins(fnArg) = {4}
    /\ Len(fnResult) = 8

\* C21 as stated: a 6-phase sequence with exactly one discontinuous join
\* yields 7 points.
C21_AsStated ==
    (pc = "chained" /\ Len(fnArg) = 6 /\ Cardinality(Joins(fnArg)) = 1) =>
        Len(fnResult) = 7

\* the four label variants whose timestamps are to be disjoint
VariantClass(case) ==
    IF case.variant \in {"year", "quarter", "embedded"} THEN "realYear" ELSE case.variant

\* C22: labels of two different variants (real year, localized ordinal,
\* English ordinal, bare integer) never resolve to the same timestamp.
C22_DisjointRanges ==
    (pc = "resolved" /\ VariantClass(fnArg.first) # VariantClass(fnArg.second)) =>
        fnResult.first # fnResult.second

\* C23: a plain four-digit year resolves to Jan 1 of that year, a year with a
\* quarter marker to the first day of that quarter of that year, any other
\* label embedding a four-digit year to Jan 1 of that year.
C23_YearResolution ==
    pc = "resolved" =>
        /\ fnArg.first.variant \in {"year", "embedded"} =>
             fnResult.first = DateUTC(fnArg.first.year, 0)
        /\ fnArg.first.variant = "quarter" =>
             fnResult.first = DateUTC(fnArg.first.year, 3 * (fnArg.first.n - 1))

\* four digits that begin with 19 or 20
ModernYear(y) == y >= 1900 /\ y <= 2099

\* C23 (as amended): with a four-digit year read as four digits beginning
\* with 19 or 20, a plain year resolves to Jan 1 of that year, a year followed
\* by a quarter marker to the first day of that quarter, any other label
\* embedding such a year to Jan 1 of that year.
C23_ModernYearResolution ==
    (pc = "resolved" /\ ModernYear(fnArg.first.year)) =>
        /\ fnArg.first.variant \in {"year", "embedded"} =>
             fnResult.first = DateUTC(fnArg.first.year, 0)
        /\ fnArg.first.variant = "quarter" =>
             fnResult.first = DateUTC(fnArg.first.year, 3 * (fnArg.first.n - 1))

\* 2020Q3 behind an earlier year: 1 July 2020, day 18444 of the epoch
C23_Witness ==
    /\ pc = "resolved"
    /\ fnArg.first = LabelCase("quarter", 2020, 3,
                               Digits(2019) \o <<"x">> \o Digits(2020) \o <<"Q", "3">>)
    /\ fnResult.first = Num(18444)

\* C24: in every result ingestReferences returns, every entry's content is a
\* non-empty string; a document or link whose text is empty once normalized
\* gives a failure message and no entry.
C24_ContentNonEmpty ==
    /\ \A i \in 1..Len(references) : Len(references[i].content) > 0
    /\ IngestReturned =>
         /\ \A i \in 1..Len(ingestion.references) :
              Len(ingestion.references[i].content) > 0
         /\ \A k \in 1..Len(attempted) :
              attempted[k].input \in {"blankText", "emptyPage"} =>
                 /\ ~attempted[k].ok
                 /\ \E e \in 1..Len(ingestion.errors) :
                      ingestion.errors[e] =
                         IF attempted[k].type = "file"
                         THEN [kind |-> "fileEmpty", source |-> DocName(attempted[k].idx)]
                         ELSE [kind |-> "linkEmpty", source |-> LinkUrl(attempted[k].idx)]
                 /\ \A i \in 1..Len(ingestion.references) :
                      ingestion.references[i].source #
                         (IF attempted[k].type = "file" THEN DocName(attempted[k].idx)
                          ELSE LinkUrl(attempted[k].idx))

C24_Witness ==
    /\ IngestReturned
    /\ Len(ingestion.references) = 2
    /\ \E k \in 1..Len(attempted) : attempted[k].input = "blankText"
    /\ \E k \in 1..Len(attempted) : attempted[k].input = "emptyPage"

\* C25: an entry's content of at most 6000 characters is stored unchanged, a
\* longer one as its first 6000 characters followed by one ellipsis
\* character; no stored content exceeds 6001 characters.
C25_ContentBudget ==
    pc = "pushed" =>
        /\ Len(fnResult) = 1
        /\ fnResult[1].type = fnArg.type
        /\ fnResult[1].source = fnArg.source
        /\ Len(fnResult[1].content) <= 6001
        /\ Len(fnArg.content) <= 6000 => fnResult[1].content = fnArg.content
        /\ Len(fnArg.content) > 6000 =>
             /\ Len(fnResult[1].content) = 6001
             /\ SubSeq(fnResult[1].content, 1, 6000) = SubSeq(fnArg.content, 1, 6000)
             /\ fnResult[1].content[6001] = Ellipsis

C25_Witness ==
    /\ pc = "pushed"
    /\ fnArg.type = "url"
    /\ Len(fnArg.content) = 6003
    /\ Len(fnResult[1].content) = 6001
    /\ fnResult[1].content[6001] = Ellipsis

\* a string with single spaces only: no whitespace run, no whitespace other
\* than " ", none at either end
Collapsed(s) ==
    /\ \A i \in 1..Len(s) : s[i] \in Whitespace => s[i] = " "
    /\ \A i \in 1..(Len(s) - 1) : ~(s[i] = " " /\ s[i + 1] = " ")
    /\ Len(s) > 0 => (s[1] # " " /\ s[Len(s)] # " ")

\* C26: the content of every entry, of the three kinds, is
\* whitespace-collapsed: no run of whitespace, no whitespace character other
\* than a single space, none leading or trailing.
C26_ContentCollapsed ==
    \A i \in 1..Len(references) : Collapsed(references[i].content)

\* what holds of the code: the entries made from documents and pages are collapsed
C26_ExtractedCollapsed ==
    \A i \in 1..Len(references) :
        references[i].type # "text" => Collapsed(references[i].content)

C26_ExtractedWitness ==
    /\ \E i \in 1..Len(references) : references[i].type = "file"
    /\ \E i \in 1..Len(references) : references[i].type = "url"

\* ingestReferences was entered: a source was attempted or a result returned
IngestStarted == hadInput \/ IngestReturned

SuccessCarriesIngestion ==
    response.kind = "success" =>
        /\ response.reference_status = ingestion.status
        /\ response.reference_errors = ingestion.errors
        /\ Len(response.reference_entries) = Len(ingestion.references)
        /\ \A i \in 1..Len(ingestion.references) :
             /\ response.reference_entries[i].type = ingestion.references[i].type
             /\ response.reference_entries[i].source = ingestion.references[i].source

\* C27: an ingestion failure never ends the request: whatever the ingestion
\* status, the generator is called; a success response carries the ingestion
\* status, its errors, and one item per entry in the same order.
C27_IngestionNeverFatal ==
    /\ (pc = "done" /\ IngestStarted) => Len(calls) >= 1
    /\ SuccessCarriesIngestion

\* what holds of the code: the same, for every ingestion that returns
C27_ReturnedNeverFatal ==
    /\ (pc = "done" /\ IngestReturned) =>
          /\ ingestion.status \in {"empty", "success", "partial", "failed"}
          /\ Len(calls) >= 1
    /\ SuccessCarriesIngestion

C27_ReturnedWitness ==
    /\ response.kind = "success"
    /\ response.reference_status = "partial"
    /\ Len(response.reference_errors) = 1
    /\ Len(response.reference_entries) = 1

\* C28: an extractor call is bounded by its own timeout: a source that
\* never responds is eventually reported as a failure in the errors, and
\* ingestReferences eventually returns.
C28_UnresponsiveSourceReported ==
    \A k \in 1..MaxLinks :
        (pc = "awaiting_fetch" /\ linkIdx = k)
            ~> (/\ IngestReturned
                /\ \E e \in 1..Len(ingestion.errors) :
                     ingestion.errors[e].source = LinkUrl(k))

\* what holds of the code: a source whose response arrives never blocks
\* the following sources or the return
C28_RespondingSourcesReturn ==
    (pc = "ingest_loops") ~> (pc \in {"ingested", "ingest_threw", "awaiting_fetch"})

\* place of a source in the submission: the supplemental text, then the
\* documents, then the links
SubmissionRank(source) ==
    IF source[1] = "user_input" THEN 0
    ELSE IF source[1] = "doc" THEN source[2]
    ELSE IF source[1] = "link" THEN nDocs + source[2]
    ELSE nDocs + nLinks + 1

SourceOf(a) == IF a.type = "file" THEN DocName(a.idx) ELSE LinkUrl(a.idx)

InSubmissionOrder(refs, errs) ==
    /\ \A i, j \in 1..Len(refs) :
         i < j => SubmissionRank(refs[i].source) < SubmissionRank(refs[j].source)
    /\ \A i, j \in 1..Len(errs) :
         i < j => SubmissionRank(errs[i].source) < SubmissionRank(errs[j].source)
    /\ \A i \in 1..Len(refs) :
         \/ refs[i].type = "text" /\ i = 1 /\ refs[i].source = <<"user_input", 0>>
         \/ \E k \in 1..Len(attempted) :
              /\ attempted[k].ok
              /\ attempted[k].type = refs[i].type
              /\ SourceOf(attempted[k]) = refs[i].source
    /\ \A e \in 1..Len(errs) :
         \E k \in 1..Len(attempted) :
              /\ ~attempted[k].ok
              /\ SourceOf(attempted[k]) = errs[e].source

\* C29: the entries are in submission order (the supplemental text, then
\* the successful documents, then the successful links, each group in the
\* order submitted); the errors are in the submission order of the failed
\* sources, each naming the document or link that failed.
C29_SubmissionOrder ==
    /\ InSubmissionOrder(references, partialErrors)
    /\ IngestReturned => InSubmissionOrder(ingestion.references, ingestion.errors)

C29_Witness ==
    /\ IngestReturned
    /\ Len(ingestion.references) = 3
    /\ ingestion.references[1].type = "text"
    /\ ingestion.references[2].source = DocName(1)
    /\ ingestion.references[3].source = LinkUrl(2)
    /\ Len(ingestion.errors) = 2
    /\ ingestion.errors[1].source = DocName(2)
    /\ ingestion.errors[2].source = LinkUrl(1)

RangeM == MinOf(PhaseValues(fnArg.phases))
RangeMax == MaxOf(PhaseValues(fnArg.phases))
\* the padding the claim gives: 8% of the span, or 5% of the magnitude (1
\* when the magnitude is zero) for a flat series
ClaimedPadding ==
    IF RangeM < RangeMax THEN Mul(Sub(RangeMax, RangeM), 8)
    ELSE IF RangeM = 0 THEN Hundredths(1)
    ELSE Mul(Abs(RangeM), 5)

\* C30: for a non-empty series the range of a subjective axis is [0, 100];
\* that of an objective axis is [m - 0.08(M - m), M + 0.08(M - m)] when
\* m < M and [m - p, m + p] with p = 0.05|m| (1 when m = 0) when m = M, and
\* always range.min < m <= M < range.max.
C30_PhaseRange ==
    (pc = "ranged" /\ Len(fnArg.phases) > 0) =>
        /\ fnArg.kind = "subjective" =>
              fnResult = [null |-> FALSE, min |-> 0, max |-> Hundredths(100)]
        /\ fnArg.kind = "objective" =>
              /\ ~fnResult.null
              /\ fnResult.min = Sub(RangeM, ClaimedPadding)
              /\ fnResult.max = Add(RangeMax, ClaimedPadding)
              /\ fnResult.min < RangeM
              /\ RangeM <= RangeMax
              /\ RangeMax < fnResult.max

\* what holds of the code: the same where no operand lies beyond the reach
\* of the significand
C30_ExactPhaseRange ==
    (pc = "ranged" /\ Len(fnArg.phases) > 0) =>
        /\ fnArg.kind = "subjective" =>
              fnResult = [null |-> FALSE, min |-> 0, max |-> Hundredths(100)]
        /\ (fnArg.kind = "objective" /\ RangeMax < HugeValue) =>
              /\ ~fnResult.null
              /\ 100 * fnResult.min =
                    IF RangeM < RangeMax THEN 100 * RangeM - 8 * (RangeMax - RangeM)
                    ELSE IF RangeM = 0 THEN 0 - 100 * 100
                    ELSE 100 * RangeM - 5 * Abs(RangeM)
              /\ 100 * fnResult.max =
                    IF RangeM < RangeMax THEN 100 * RangeMax + 8 * (RangeMax - RangeM)
                    ELSE IF RangeM = 0 THEN 100 * 100
                    ELSE 100 * RangeM + 5 * Abs(RangeM)
              /\ fnResult.min < RangeM
              /\ RangeM <= RangeMax
              /\ RangeMax < fnResult.max

\* the outcome of the extractor call logged as a
DocOutcome(a) == extractTextFromDocument(a.input, DocName(a.idx))

OutcomeAsSpecified(a) ==
    LET r == DocOutcome(a)
    IN  /\ \/ r.tag = "text" /\ Len(r.text) > 0
           \/ r.tag = "ReferenceIngestionError"
        /\ a.input \in {"emptyPayload", "blankText"} => r = TypedError("fileEmpty", DocName(a.idx))
        /\ a.input = "oversize" => r = TypedError("fileTooLarge", DocName(a.idx))
        /\ a.input = "corrupt" => r = TypedError("cannotParseFile", DocName(a.idx))
        /\ a.ok = (r.tag = "text")

\* C31: extractTextFromDocument ends in one of two ways, a non-empty
\* normalized text or a ReferenceIngestionError: an empty or oversized
\* payload fails with an error naming the file, a parser exception becomes
\* the cannot-parse error, the content-is-empty error passes through, and
\* no other exception reaches the caller.
C31_TwoOutcomes ==
    \A k \in 1..Len(attempted) :
        attempted[k].type = "file" => OutcomeAsSpecified(attempted[k])

\* what holds of the code: the same for documents whose content is a string
C31_StringContentOutcomes ==
    \A k \in 1..Len(attempted) :
        (attempted[k].type = "file" /\ attempted[k].input \notin {"null", "nonStringContent"})
            => OutcomeAsSpecified(attempted[k])

FileAttempts == {k \in 1..Len(attempted) : attempted[k].type = "file"}

\* C32: of the k documents of a request body the first min(k, 5) are
\* extracted, in submission order; a document beyond the fifth gives
\* neither an entry nor an error.
C32_DocumentCap ==
    /\ Len(attempted) <= 5
    /\ \A k \in 1..Len(attempted) : attempted[k].type = "file" /\ attempted[k].idx = k
    /\ \A i \in 1..Len(references) : references[i].source \in {DocName(d) : d \in 1..5}
    /\ \A e \in 1..Len(partialErrors) : partialErrors[e].source \in {DocName(d) : d \in 1..5}
    /\ pc \in {"ingested", "ingest_threw"} => Cardinality(FileAttempts) = Min(fnArg, 5)

\* what holds of the code: the same whenever ingestReferences returns
C32_ReturnedDocumentCap ==
    /\ Len(attempted) <= 5
    /\ \A k \in 1..Len(attempted) : attempted[k].type = "file" /\ attempted[k].idx = k
    /\ \A i \in 1..Len(references) : references[i].source \in {DocName(d) : d \in 1..5}
    /\ \A e \in 1..Len(partialErrors) : partialErrors[e].source \in {DocName(d) : d \in 1..5}
    /\ pc = "ingested" =>
          /\ Cardinality(FileAttempts) = Min(fnArg, 5)
          /\ Len(ingestion.references) + Len(ingestion.errors) = Min(fnArg, 5)

C32_ReturnedWitness ==
    /\ pc = "ingested"
    /\ fnArg = 6
    /\ Len(attempted) = 5
    /\ attempted[5].ok

\* no pattern of yearToTimestamp matches the label: each of them needs a digit
Unparseable(label) ==
    /\ label.type = "string"
    /\ \A i \in 1..Len(label.text) : ~IsDigit(label.text[i])

NoLabelParseable(phases) ==
    \A p \in 1..Len(phases) :
        Unparseable(phases[p].start_year) /\ Unparseable(phases[p].end_year)

\* C33: when no label of the sequence is parseable, the fallback timestamps
\* yearToTimestamp gives to the points buildAreaData emits are pairwise
\* distinct before pushPoint adjusts them: the end of a phase and the start
\* of the next one never get the same timestamp.
C33_FallbackDistinct ==
    (pc = "charted" /\ NoLabelParseable(fnResult.displayPhases)) =>
        \A i, j \in 1..Len(fnResult.data) :
            i < j => RawTime(fnResult.displayPhases, fnResult.data, i)
                        # RawTime(fnResult.displayPhases, fnResult.data, j)

\* what holds of the code: the fallback timestamps never decrease along the
\* points, and those of the two ends of one phase differ
C33_FallbackOrdered ==
    (pc = "charted" /\ NoLabelParseable(fnResult.displayPhases)) =>
        /\ \A i, j \in 1..Len(fnResult.data) :
              i < j => RawTime(fnResult.displayPhases, fnResult.data, i).v
                          <= RawTime(fnResult.displayPhases, fnResult.data, j).v
        /\ \A p \in 1..Len(fnResult.displayPhases) :
              yearToTimestamp(fnResult.displayPhases[p].start_year, p - 1)
                 # yearToTimestamp(fnResult.displayPhases[p].end_year, p)

GenericError == [kind |-> "nothingUsable", source |-> NoSource]

\* C34: in every result ingestReferences returns, entries plus errors count
\* the attempted sources (the non-blank supplemental text, the documents
\* and the links); a failed result holds one message per document and link,
\* at least one, and never the generic message.
C34_SourcesAccounted ==
    IngestReturned =>
        /\ Len(ingestion.references) + Len(ingestion.errors) = TextCount + nDocs + nLinks
        /\ \A e \in 1..Len(ingestion.errors) : ingestion.errors[e] # GenericError
        /\ ingestion.status = "failed" =>
              /\ Len(ingestion.errors) = nDocs + nLinks
              /\ Len(ingestion.errors) > 0
              /\ Len(ingestion.errors) = Len(attempted)
              /\ TextCount = 0

C34_Witness ==
    /\ IngestReturned
    /\ ingestion.status = "failed"
    /\ Len(ingestion.errors) = 3
    /\ nDocs = 2
    /\ nLinks = 1

\* no document parsed, no link fetched, no generator call
NothingStarted ==
    /\ attempted = <<>>
    /\ references = <<>>
    /\ partialErrors = <<>>
    /\ ~hadInput
    /\ ~IngestReturned
    /\ calls = <<>>
    /\ replies = <<>>

GateRejections == {"missingApiKey", "badRequestBody", "noPrompt"}

\* C35: a request without API key is rejected with status 500, one whose
\* body is no JSON or whose prompt is blank with status 400, and in these
\* cases no document is parsed, no link fetched and the generator never
\* called; ingestion is complete before the first generator call.
C35_GatingOrder ==
    /\ (response.kind = "error" /\ response.error \in GateRejections) =>
          /\ response.status = IF response.error = "missingApiKey" THEN 500 ELSE 400
          /\ pc = "done"
          /\ NothingStarted
    /\ query = NoValue => NothingStarted
    /\ calls # <<>> => IngestReturned

C35_Witness ==
    /\ pc = "done"
    /\ response = ErrorResponse(400, "noPrompt")
    /\ NothingStarted

\* each source is attempted at most once
OneAttemptPerSource ==
    \A j, k \in 1..Len(attempted) :
        (attempted[j].type = attempted[k].type /\ attempted[j].idx = attempted[k].idx) => j = k

\* C36: POST ends with exactly one response, of status 200, 400, 500 or
\* 502, after at most one attempt per source and at most two generator
\* calls; once the request body is read no exception leaves POST.
C36_OneResponse ==
    /\ response # Escaped
    /\ pc = "done" => response.kind \in {"success", "error"} /\ response.status \in {200, 400, 500, 502}
    /\ pc # "done" => response = NoResponse
    /\ response.kind = "success" => response.status = 200 /\ validated
    /\ OneAttemptPerSource
    /\ Len(calls) <= 2

\* what holds of the code: the same for the requests no exception ends
C36_OneResponseUnlessEscaped ==
    /\ pc = "done" =>
          \/ response = Escaped
          \/ response.kind \in {"success", "error"} /\ response.status \in {200, 400, 500, 502}
    /\ pc # "done" => response = NoResponse
    /\ response.kind = "success" => response.status = 200 /\ validated
    /\ OneAttemptPerSource
    /\ Len(calls) <= 2

\* every step of POST that can run does run
SpecFair == Spec /\ WF_vars(Next)

\* what holds of the code as well: every request comes to its end
C36_Terminates == <>(pc = "done")

\* Home clamps the series: shouldClampPrimary of page.tsx line 925
ClampsSeries == fnArg.kind # "objective"
FixedRange == [null |-> FALSE, min |-> 0, max |-> Hundredths(100)]

\* C37: whenever the values of a series are clamped into [0,100] (axis kind
\* subjective or unspecified) the range computed for its axis is exactly
\* [0,100]; whenever the range is derived from the minimum and maximum of
\* the series, its values were not clamped.
C37_ClampAndRangeAgree ==
    (pc = "ranged" /\ Len(fnArg.phases) > 0) =>
        /\ ClampsSeries => fnResult.range = FixedRange
        /\ fnResult.range # FixedRange => fnResult.displayPhases = fnArg.phases

\* what holds of the code: the same when the axis kind is given
C37_AgreeForGivenKind ==
    (pc = "ranged" /\ Len(fnArg.phases) > 0 /\ fnArg.kind # "undefined") =>
        /\ ClampsSeries => fnResult.range = FixedRange
        /\ fnResult.range # FixedRange => fnResult.displayPhases = fnArg.phases

\* C38: after any sequence and interleaving of file selections and document
\* removals the documents list holds at most 5 documents.
C38_ClientDocumentCap == documents <= 5

\* what holds of the code: no single selection reads more files than the
\* slots that were free when it was made
C38_SelectionWithinSlots ==
    \A i \in 1..Len(pendingReads) : pendingReads[i] \in 1..5

\* C39: a runGeneration that fails (blank query, rejected fetch, non-OK
\* response, missing or empty phases) leaves result unchanged and error
\* non-null; one that succeeds replaces result by the response and leaves
\* error null; loading is true while the request is in flight and false
\* once it is complete.
C39_RunGeneration ==
    /\ [](pc = "fetching" => loading /\ clientError = "null")
    /\ [][/\ fnArg' = "" => result' = result /\ clientError' # "null"
          /\ pc = "fetching" /\ pc' = "client" =>
                /\ ~loading'
                /\ IF fnResult' \in ValidPayloads
                   THEN result' = fnResult' /\ clientError' = "null"
                   ELSE result' = result /\ clientError' # "null"]_vars

\* a request failed after an earlier one had replaced the sample result
C39_Witness ==
    /\ pc = "client"
    /\ fnResult = "networkError"
    /\ result = "phasesA"
    /\ clientError = "failedToFetch"
    /\ ~loading

====
